---- MODULE Spec2Model ----
(***************************************************************************)
(* The macro engine of plugins/multi_hotkey_macros.py: the macro store and *)
(* its persisted form, the hotkey map, the facade (MultiHotkeyMacrosPlugin)*)
(* and the executor (MacroExecutor, a QThread) with its worker.            *)
(*                                                                         *)
(* Time is counted in slices: a sleep of duration d is d sleep steps of    *)
(* one slice each.  Timestamps (time.time(), datetime.now()) are readings  *)
(* of one clock: clock holds the last reading, and a step that reads the   *)
(* time reads a value no smaller than it.  The empty string of an id or    *)
(* of a date is 0.                                                         *)
(***************************************************************************)
EXTENDS Integers, Sequences, FiniteSets, TLC

\* ------------------------------------------------------------------ bounds

MaxClock == 1
MaxRuns == 1
MaxStoreOps == 2
MaxHeap == 3
MaxPixel == 3
MaxMoves == 2

\* ------------------------------------------------------- python dictionaries

\* {} : the empty dict
EmptyDict == [k \in {} |-> 0]

\* d.get(k, default)
Get(d, k, default) == IF k \in DOMAIN d THEN d[k] ELSE default

\* a merge in which the base wins on a key of both
MergeBaseWins(base, over) ==
    [k \in DOMAIN base \cup DOMAIN over |->
        IF k \in DOMAIN base THEN base[k] ELSE over[k]]

\* {**base, **over}
Merge(base, over) ==
    [k \in DOMAIN base \cup DOMAIN over |->
        IF k \in DOMAIN over THEN over[k] ELSE base[k]]

\* d[k] = v on a dict held as a function
DictPut(d, k, v) == [x \in DOMAIN d \cup {k} |-> IF x = k THEN v ELSE d[x]]

\* del d[k]
DictRemove(d, k) == [x \in DOMAIN d \ {k} |-> d[x]]

\* An insertion-ordered dict (self.macros, saved_macros) is a sequence of
\* <<key, value>> pairs with distinct keys.
OKeys(od) == {od[n][1] : n \in DOMAIN od}

OHas(od, k) == k \in OKeys(od)

OGet(od, k) == od[CHOOSE n \in DOMAIN od : od[n][1] = k][2]

\* od[k] = v : an existing key keeps its place, a new key goes last
OPut(od, k, v) ==
    IF OHas(od, k)
    THEN [n \in DOMAIN od |-> IF od[n][1] = k THEN <<k, v>> ELSE od[n]]
    ELSE Append(od, <<k, v>>)

\* del od[k]
ODel(od, k) == SelectSeq(od, LAMBDA p : p[1] # k)

\* ------------------------------------------------------------- action model

None == 0
NoId == 0
NoDate == 0
NoHotkey == ""

\* ActionType: member name -> value
ActionTypeValue ==
    [KEY_PRESS |-> "key_press", KEY_HOLD |-> "key_hold",
     KEY_RELEASE |-> "key_release", MOUSE_CLICK |-> "mouse_click",
     MOUSE_MOVE |-> "mouse_move", MOUSE_SCROLL |-> "mouse_scroll",
     DELAY |-> "delay", LOOP_START |-> "loop_start", LOOP_END |-> "loop_end",
     CONDITION |-> "condition", VARIABLE_SET |-> "variable_set",
     HOTKEY_TRIGGER |-> "hotkey_trigger"]

ActionTypeNames == DOMAIN ActionTypeValue

ActionTypeValues == {ActionTypeValue[n] : n \in ActionTypeNames}

\* ActionType(value): the member with that value (ValueError when none)
ActionTypeOf(value) == CHOOSE n \in ActionTypeNames : ActionTypeValue[n] = value

\* MacroAction.__post_init__
MacroActionPostInit(a, now) ==
    [a EXCEPT !.id = IF a.id = NoId THEN now ELSE a.id]

\* MacroAction(action_type, parameters, enabled, description, id)
MacroAction(action_type, parameters, enabled, description, id, now) ==
    MacroActionPostInit(
        [action_type |-> action_type, parameters |-> parameters,
         enabled |-> enabled, description |-> description, id |-> id], now)

\* Macro.__post_init__ : modified_date is stamped on every construction
MacroPostInit(m, now) ==
    [m EXCEPT !.id = IF m.id = NoId THEN now ELSE m.id,
              !.created_date = IF m.created_date = NoDate THEN now
                               ELSE m.created_date,
              !.modified_date = now]

\* Macro(...) with the dataclass defaults filled in by the caller
Macro(name, actions, hotkey, enabled, repeat_count, repeat_delay, description, category, created_date, modified_date, id, now) ==
    MacroPostInit(
        [name |-> name, actions |-> actions, hotkey |-> hotkey,
         enabled |-> enabled, repeat_count |-> repeat_count,
         repeat_delay |-> repeat_delay, description |-> description,
         category |-> category, created_date |-> created_date,
         modified_date |-> modified_date, id |-> id], now)

\* ------------------------------------------------- persisted collections

\* one persisted action record, as _save_macros writes it
PAction(action_type, parameters, enabled, description, id) ==
    [action_type |-> action_type, parameters |-> parameters,
     enabled |-> enabled, description |-> description, id |-> id]

\* one persisted macro record, as _save_macros writes it
PMacro(name, actions, hotkey, enabled, repeat_count, repeat_delay, created_date, modified_date) ==
    [name |-> name, actions |-> actions, hotkey |-> hotkey,
     enabled |-> enabled, repeat_count |-> repeat_count,
     repeat_delay |-> repeat_delay, description |-> "d",
     category |-> "General", created_date |-> created_date,
     modified_date |-> modified_date]

KeyA == PAction("key_press", [key |-> "a"], TRUE, "press a", 11)
KeyB == PAction("key_press", [key |-> "b"], TRUE, "", 12)
KeyBOff == PAction("key_press", [key |-> "b"], FALSE, "", 12)
Wait2 == PAction("delay", [duration |-> 2], TRUE, "wait", 13)
Wait1 == PAction("delay", [duration |-> 1], TRUE, "", 14)
Loop3 == PAction("loop_start", [iterations |-> 3], TRUE, "", 15)
LoopEnd == PAction("loop_end", EmptyDict, TRUE, "", 16)
SetX == PAction("variable_set", [name |-> "x", value |-> 1], TRUE, "", 17)
SetYOff == PAction("variable_set", [name |-> "y", value |-> 1], FALSE, "", 18)
Loop2Off == PAction("loop_start", [iterations |-> 2], FALSE, "", 19)
KeyBad == PAction("key_press", [key |-> "bad"], TRUE, "", 20)
Teleport == PAction("teleport", EmptyDict, TRUE, "", 21)
SetNone == PAction("variable_set", [name |-> "", value |-> 9], TRUE, "", 22)
Cond == PAction("condition", [expression |-> "x"], TRUE, "", 23)
Trigger == PAction("hotkey_trigger", [hotkey |-> "h2"], TRUE, "", 24)
HoldA == PAction("key_hold", [key |-> "a", duration |-> 2], TRUE, "", 25)
HoldNeg == PAction("key_hold", [key |-> "a", duration |-> -1], TRUE, "", 26)

\* The persisted collections a session may start from (the content of
\* plugin_config['saved_macros'] read from the plugin's YAML file).
Collections ==
    { << <<1, PMacro("seq", <<KeyA, Wait1>>, "h1", TRUE, 2, 1, 1, 1)>>,
         <<2, PMacro("off", <<KeyA>>, "h2", FALSE, 1, 0, 1, 1)>> >> }

Hotkeys == {"h1", "h2"}

\* the clock reading of the first session step
FirstTick == 5

\* --------------------------------------------------------------- state

VARIABLES
    clock,               \* the last reading of time.time() / datetime.now()
    KEYBOARD_AVAILABLE,  \* import-time flag of the keyboard library
    MOUSE_AVAILABLE,     \* import-time flag of the mouse library
    pointer,             \* mouse.get_position(), in units of 1 / Scale pixel
    mouse_move,          \* the locals of _execute_mouse_move, kept after it
                         \* returns, and the number of its calls
    global_variables,    \* self.global_variables of the plugin
    plugin_config,       \* [saved_macros, auto_save]
    is_initialized,
    heap,                \* the Macro objects, by address 1..Len(heap)
    macros,              \* self.macros : id -> address, insertion-ordered
    hotkey_bindings,     \* self.hotkey_bindings : hotkey -> macro id
    registered,          \* keyboard.add_hotkey registrations <<hotkey, id>>
    currently_executing,
    execution_stats,
    macro,               \* executor.macro : an address, or None
    variables,           \* executor.variables
    loop_stack,          \* executor.loop_stack
    should_stop,
    is_paused,
    running,             \* QThread.isRunning()
    pc,                  \* the worker's position in run()
    repeat,              \* run(): the loop variable of the repeat loop
    repeat_total,        \* run(): range(self.macro.repeat_count), read once
    it_macro,            \* _execute_actions: the object whose list is iterated
    idx,                 \* _execute_actions: i
    action_count,        \* _execute_actions: len(self.macro.actions)
    slices,              \* slices left of the sleep the worker is in
    sigq,                \* finished signals queued to the facade's thread
    trace,               \* what the current run has done, in order
    stop_seen,           \* stop_execution() was called during the current run
    blocked,             \* the worker slept in the pause loop during the current run
    accepted,            \* the macro as it was when the current run was started,
                         \* a record without fields but id when there is none
    stop_mark,           \* Len(trace) + 1 when stop came in the pause wait
    store_ops,           \* number of store operations so far
    call                 \* per calling thread: its position in execute_macro

store_vars == <<plugin_config, is_initialized, heap, macros, hotkey_bindings,
                registered>>

exec_vars == <<macro, variables, loop_stack, should_stop, is_paused, running>>

worker_vars == <<pc, repeat, repeat_total, it_macro, idx, action_count, slices>>

hist_vars == <<trace, stop_seen, blocked, accepted, stop_mark>>

\* what only the calls that run statement by statement change
frame_vars == <<KEYBOARD_AVAILABLE, MOUSE_AVAILABLE, pointer, mouse_move,
                global_variables, call>>

vars == <<worker_vars, hist_vars, exec_vars, sigq, currently_executing,
          execution_stats, clock, frame_vars, store_ops, store_vars>>

\* the threads that call the facade: the UI thread and the hotkey backend's
Threads == {"ui", "hk"}

\* a thread that is not inside execute_macro
IdleCall == [pc |-> "idle", macro_id |-> None, m |-> None]

\* every reading of the clock
Times == FirstTick .. (FirstTick + MaxClock)

\* the readings of the clock a step may take
Readings == clock .. (FirstTick + MaxClock)

\* _execute_mouse_move has not been called
NoMove == [pc |-> "idle", x |-> 0, y |-> 0, current_x |-> 0, current_y |-> 0,
           steps |-> 0, dx |-> 0, dy |-> 0, i |-> 0, smooth |-> FALSE,
           broke |-> FALSE, calls |-> 0]

\* MultiHotkeyMacrosPlugin.__init__ and MacroExecutor.__init__, for a session
\* that starts from one of these persisted collections, with the pointer in
\* the corner of the screen
InitWith(collections, keyboards, mice, auto_saves, globals) ==
    /\ clock = FirstTick
    /\ KEYBOARD_AVAILABLE \in keyboards
    /\ MOUSE_AVAILABLE \in mice
    /\ pointer = <<0, 0>>
    /\ mouse_move = NoMove
    /\ global_variables \in globals
    /\ plugin_config \in [saved_macros : collections, auto_save : auto_saves]
    /\ is_initialized = FALSE
    /\ heap = <<>>
    /\ macros = <<>>
    /\ hotkey_bindings = EmptyDict
    /\ registered = {}
    /\ currently_executing = None
    /\ execution_stats = [total_executed |-> 0, successful_executions |-> 0,
                          failed_executions |-> 0, last_execution |-> NoDate]
    /\ macro = None
    /\ variables = EmptyDict
    /\ loop_stack = <<>>
    /\ should_stop = FALSE
    /\ is_paused = FALSE
    /\ running = FALSE
    /\ pc = "idle"
    /\ repeat = 0
    /\ repeat_total = 0
    /\ it_macro = None
    /\ idx = 0
    /\ action_count = 0
    /\ slices = 0
    /\ sigq = <<>>
    /\ trace = <<>>
    /\ stop_seen = FALSE
    /\ blocked = FALSE
    /\ accepted = [id |-> NoId]
    /\ stop_mark = None
    /\ store_ops = 0
    /\ call = [t \in Threads |-> IdleCall]

\* a session on a host that has the mouse library
InitOf(collections, keyboards, auto_saves, globals) ==
    InitWith(collections, keyboards, {TRUE}, auto_saves, globals)

\* the stored macro object with that id
Stored(id) == heap[OGet(macros, id)]

\* ------------------------------------------------------------ macro store

\* _load_macros, the body of the loop over one macro's action_data
LoadAction(action_data, now) ==
    MacroAction(ActionTypeOf(action_data.action_type),
                Get(action_data, "parameters", EmptyDict),
                Get(action_data, "enabled", TRUE),
                Get(action_data, "description", ""),
                Get(action_data, "id", NoId), now)

\* _load_macros raises on this entry (KeyError, ValueError)
LoadRaises(macro_data) ==
    \/ "name" \notin DOMAIN macro_data
    \/ \E n \in DOMAIN Get(macro_data, "actions", <<>>) :
          LET a == macro_data.actions[n]
          IN  \/ "action_type" \notin DOMAIN a
              \/ a.action_type \notin ActionTypeValues

\* _load_macros, the Macro built from one entry
LoadMacro(macro_id, macro_data, now) ==
    Macro(macro_data.name,
          [n \in DOMAIN Get(macro_data, "actions", <<>>) |->
              LoadAction(macro_data.actions[n], now)],
          Get(macro_data, "hotkey", NoHotkey),
          Get(macro_data, "enabled", TRUE),
          Get(macro_data, "repeat_count", 1),
          Get(macro_data, "repeat_delay", 0),
          Get(macro_data, "description", ""),
          Get(macro_data, "category", "General"),
          Get(macro_data, "created_date", NoDate),
          Get(macro_data, "modified_date", NoDate),
          macro_id, now)

\* a load that binds the hotkey of a disabled macro too
LoadBindsDisabledToo(m) == m.hotkey # NoHotkey

\* _load_macros: "Register hotkey if present"
LoadBinds(m) == m.hotkey # NoHotkey /\ m.enabled

\* _load_macros: the loop over saved_macros from entry n on; an entry that
\* raises ends the load where it is (the except clause only logs)
RECURSIVE LoadFrom(_, _, _, _, _, _)
LoadFrom(entries, n, ms, hp, hb, now) ==
    IF n > Len(entries) \/ LoadRaises(entries[n][2])
    THEN [macros |-> ms, heap |-> hp, hotkey_bindings |-> hb]
    ELSE LET macro_id == entries[n][1]
             m == LoadMacro(macro_id, entries[n][2], now)
             hp2 == Append(hp, m)
         IN  LoadFrom(entries, n + 1, OPut(ms, macro_id, Len(hp2)), hp2,
                      IF LoadBinds(m) THEN DictPut(hb, m.hotkey, macro_id)
                      ELSE hb,
                      now)

\* _load_macros
LoadMacros(ms, hp, hb, saved, now) == LoadFrom(saved, 1, ms, hp, hb, now)

\* _save_macros: one action in serializable format
SaveAction(a) ==
    [action_type |-> ActionTypeValue[a.action_type],
     parameters |-> a.parameters, enabled |-> a.enabled,
     description |-> a.description, id |-> a.id]

\* _save_macros: one macro in serializable format
SaveMacro(m) ==
    [name |-> m.name,
     actions |-> [n \in DOMAIN m.actions |-> SaveAction(m.actions[n])],
     hotkey |-> m.hotkey, enabled |-> m.enabled,
     repeat_count |-> m.repeat_count, repeat_delay |-> m.repeat_delay,
     description |-> m.description, category |-> m.category,
     created_date |-> m.created_date, modified_date |-> m.modified_date]

\* _save_macros: the new value of plugin_config['saved_macros']
SaveMacros(ms, hp) == [n \in DOMAIN ms |-> <<ms[n][1], SaveMacro(hp[ms[n][2]])>>]

\* default_config['global_hotkey_enabled'], for a configuration file that
\* does not set the key
GlobalHotkeyEnabled == KEYBOARD_AVAILABLE

\* keyboard.add_hotkey(hotkey, callback): the strings the library cannot
\* parse into a key combination raise ValueError
UnparsableHotkeys == {"hx"}

AddHotkeyRaises(hotkey) == hotkey \in UnparsableHotkeys

\* a listener whose loop ends at the first add_hotkey that raises, with
\* nothing registered
StartHotkeyListenerAllOrNothing(hb) ==
    IF GlobalHotkeyEnabled /\ KEYBOARD_AVAILABLE
          /\ \A h \in DOMAIN hb : ~AddHotkeyRaises(h)
    THEN {<<h, hb[h]>> : h \in DOMAIN hb}
    ELSE {}

\* a listener whose callbacks read macro_id when they are called: all of
\* them hold the id of the last binding of the map
StartHotkeyListenerLateBinding(hb) ==
    IF GlobalHotkeyEnabled /\ KEYBOARD_AVAILABLE
    THEN {<<h, hb[CHOOSE l \in DOMAIN hb : \A o \in DOMAIN hb : hb[o] <= hb[l]]>> :
             h \in {k \in DOMAIN hb : ~AddHotkeyRaises(k)}}
    ELSE {}

\* _start_hotkey_listener / hotkey_listener: one add_hotkey per binding,
\* each callback holding the macro id the map had at that moment; a binding
\* whose add_hotkey raises is logged and the loop goes on
StartHotkeyListener(hb) ==
    IF GlobalHotkeyEnabled /\ KEYBOARD_AVAILABLE
    THEN {<<h, hb[h]>> : h \in {k \in DOMAIN hb : ~AddHotkeyRaises(k)}}
    ELSE {}

\* initialize()
Initialize(now) ==
    /\ ~is_initialized
    /\ now \in Readings
    /\ clock' = now
    /\ LET loaded == LoadMacros(macros, heap, hotkey_bindings,
                                plugin_config.saved_macros, now)
       IN  /\ macros' = loaded.macros
           /\ heap' = loaded.heap
           /\ hotkey_bindings' = loaded.hotkey_bindings
           /\ registered' = StartHotkeyListener(loaded.hotkey_bindings)
    /\ is_initialized' = TRUE
    /\ UNCHANGED <<store_ops, frame_vars, plugin_config,
                   currently_executing, execution_stats, exec_vars,
                   worker_vars, sigq, hist_vars>>

\* plugin_config.get('auto_save', True) guarding _save_macros()
AutoSave(cfg, ms, hp) ==
    IF cfg.auto_save THEN [cfg EXCEPT !.saved_macros = SaveMacros(ms, hp)]
    ELSE cfg

\* create_macro(name, category)
CreateMacro(name, category, now) ==
    /\ is_initialized
    /\ store_ops < MaxStoreOps
    /\ store_ops' = store_ops + 1
    /\ Len(heap) < MaxHeap
    /\ now \in Readings
    /\ clock' = now
    /\ LET m == Macro(name, <<>>, NoHotkey, TRUE, 1, 0, "", category,
                      NoDate, NoDate, NoId, now)
           hp == Append(heap, m)
           ms == OPut(macros, m.id, Len(hp))
       IN  /\ heap' = hp
           /\ macros' = ms
           /\ plugin_config' = AutoSave(plugin_config, ms, hp)
    /\ UNCHANGED <<frame_vars, is_initialized, hotkey_bindings,
                   registered, currently_executing, execution_stats,
                   exec_vars, worker_vars, sigq, hist_vars>>

\* delete_macro: "Remove hotkey binding"
DeleteBinding(hb, m, macro_id) ==
    IF m.hotkey \in DOMAIN hb THEN DictRemove(hb, m.hotkey) ELSE hb

\* delete_macro(macro_id), the case that returns True
DeleteMacro(macro_id) ==
    /\ is_initialized
    /\ store_ops < MaxStoreOps
    /\ store_ops' = store_ops + 1
    /\ OHas(macros, macro_id)
    /\ LET ms == ODel(macros, macro_id)
       IN  /\ hotkey_bindings' =
                  DeleteBinding(hotkey_bindings, Stored(macro_id), macro_id)
           /\ macros' = ms
           /\ plugin_config' = AutoSave(plugin_config, ms, heap)
    /\ UNCHANGED <<clock, frame_vars, is_initialized, heap, registered,
                   currently_executing, execution_stats, exec_vars,
                   worker_vars, sigq, hist_vars>>

\* macro.hotkey = hotkey on a stored macro (the store hands out the object)
EditHotkey(macro_id, hotkey) ==
    /\ is_initialized
    /\ store_ops < MaxStoreOps
    /\ store_ops' = store_ops + 1
    /\ OHas(macros, macro_id)
    /\ Stored(macro_id).hotkey # hotkey
    /\ heap' = [heap EXCEPT ![OGet(macros, macro_id)].hotkey = hotkey]
    /\ UNCHANGED <<clock, frame_vars, plugin_config, is_initialized,
                   macros, hotkey_bindings, registered, currently_executing,
                   execution_stats, exec_vars, worker_vars, sigq, hist_vars>>

\* macro.enabled = enabled on a stored macro
EditEnabled(macro_id, enabled) ==
    /\ is_initialized
    /\ store_ops < MaxStoreOps
    /\ store_ops' = store_ops + 1
    /\ OHas(macros, macro_id)
    /\ Stored(macro_id).enabled # enabled
    /\ heap' = [heap EXCEPT ![OGet(macros, macro_id)].enabled = enabled]
    /\ UNCHANGED <<clock, frame_vars, plugin_config, is_initialized,
                   macros, hotkey_bindings, registered, currently_executing,
                   execution_stats, exec_vars, worker_vars, sigq, hist_vars>>

\* action.enabled = enabled on an action of a stored macro
EditActionEnabled(macro_id, n, enabled) ==
    /\ is_initialized
    /\ store_ops < MaxStoreOps
    /\ store_ops' = store_ops + 1
    /\ OHas(macros, macro_id)
    /\ n \in DOMAIN Stored(macro_id).actions
    /\ Stored(macro_id).actions[n].enabled # enabled
    /\ heap' = [heap EXCEPT
                  ![OGet(macros, macro_id)].actions[n].enabled = enabled]
    /\ UNCHANGED <<clock, frame_vars, plugin_config, is_initialized,
                   macros, hotkey_bindings, registered, currently_executing,
                   execution_stats, exec_vars, worker_vars, sigq, hist_vars>>

\* macro.repeat_count = repeat_count on a stored macro
EditRepeatCount(macro_id, repeat_count) ==
    /\ is_initialized
    /\ store_ops < MaxStoreOps
    /\ store_ops' = store_ops + 1
    /\ OHas(macros, macro_id)
    /\ Stored(macro_id).repeat_count # repeat_count
    /\ heap' = [heap EXCEPT
                  ![OGet(macros, macro_id)].repeat_count = repeat_count]
    /\ UNCHANGED <<clock, frame_vars, plugin_config, is_initialized,
                   macros, hotkey_bindings, registered, currently_executing,
                   execution_stats, exec_vars, worker_vars, sigq, hist_vars>>

\* macro.repeat_delay = repeat_delay on a stored macro
EditRepeatDelay(macro_id, repeat_delay) ==
    /\ is_initialized
    /\ store_ops < MaxStoreOps
    /\ store_ops' = store_ops + 1
    /\ OHas(macros, macro_id)
    /\ Stored(macro_id).repeat_delay # repeat_delay
    /\ heap' = [heap EXCEPT
                  ![OGet(macros, macro_id)].repeat_delay = repeat_delay]
    /\ UNCHANGED <<clock, frame_vars, plugin_config, is_initialized,
                   macros, hotkey_bindings, registered, currently_executing,
                   execution_stats, exec_vars, worker_vars, sigq, hist_vars>>

\* ------------------------------------------------------------------ facade

\* self.global_variables, assigned once in __init__
GlobalVariables == EmptyDict

\* the ids a caller may pass: stored ids, clock-derived ids, and one more
CallIds == 1 .. (FirstTick + MaxClock + 1)

\* execute_macro without "Check if already executing"
ExecuteOutcomeNoBusyCheck(macro_id) ==
    IF ~OHas(macros, macro_id) THEN "not_found"
    ELSE IF ~Stored(macro_id).enabled THEN "disabled"
    ELSE "execute"

\* execute_macro without "if not macro.enabled"
ExecuteOutcomeNoEnabledCheck(macro_id) ==
    IF ~OHas(macros, macro_id) THEN "not_found"
    ELSE IF running THEN "already_running"
    ELSE "execute"

\* execute_macro(macro_id): which of its returns the call takes
ExecuteOutcome(macro_id) ==
    IF ~OHas(macros, macro_id) THEN "not_found"
    ELSE IF ~Stored(macro_id).enabled THEN "disabled"
    ELSE IF running THEN "already_running"
    ELSE "execute"

\* an executor that starts a run with the flags as they are
ExecutorAssignKeepsFlags(m, vs) ==
    /\ macro' = m
    /\ variables' = vs
    /\ UNCHANGED <<should_stop, is_paused>>

\* an executor that updates the variables it has instead of replacing them
ExecutorAssignKeeps(m, vs) ==
    /\ macro' = m
    /\ variables' = Merge(variables, vs)
    /\ should_stop' = FALSE
    /\ is_paused' = FALSE

\* MacroExecutor.execute_macro(macro, variables) up to, not including, start()
ExecutorAssign(m, vs) ==
    /\ macro' = m
    /\ variables' = vs
    /\ should_stop' = FALSE
    /\ is_paused' = FALSE

\* QThread.start(): a thread that is already running is left alone
ThreadStart ==
    IF running
    THEN UNCHANGED <<running, worker_vars, hist_vars>>
    ELSE /\ running' = TRUE
         /\ pc' = "run"
         /\ trace' = <<>>
         /\ stop_seen' = FALSE
         /\ blocked' = FALSE
         /\ accepted' = heap[macro']
         /\ stop_mark' = None
         /\ UNCHANGED <<repeat, repeat_total, it_macro, idx, action_count,
                        slices>>

\* the runs that have finished so far: counted, or queued to be counted
RunsDone == execution_stats.total_executed + Len(sigq)

\* the runs a session is followed through: MaxRuns, and one more when the
\* runs so far have left frames on the executor's loop stack or values in
\* its variables
RunLimit ==
    MaxRuns + (IF loop_stack # <<>> \/ variables # EmptyDict THEN 1 ELSE 0)

\* execute_macro(macro_id): the signal the call emits before it returns, by
\* its outcome (an accepted call emits none itself)
ExecuteNotice(macro_id) ==
    LET outcome == ExecuteOutcome(macro_id)
    IN  IF outcome = "not_found" THEN <<"error_occurred", "not found", macro_id>>
        ELSE IF outcome = "disabled"
        THEN <<"status_changed", "is disabled", Stored(macro_id).name>>
        ELSE IF outcome = "already_running"
        THEN <<"status_changed", "Another macro is already running">>
        ELSE <<>>

\* an execute_macro that clears currently_executing when it rejects a call
ExecuteMacroClearsMarker(macro_id, overrides) ==
    /\ is_initialized
    /\ IF ExecuteOutcome(macro_id) = "execute"
       THEN /\ RunsDone < RunLimit
            /\ currently_executing' = macro_id
            /\ ExecutorAssign(OGet(macros, macro_id),
                              Merge(global_variables, overrides))
            /\ ThreadStart
            /\ UNCHANGED <<clock, frame_vars, store_vars,
                           execution_stats, loop_stack, sigq, store_ops>>
       ELSE /\ currently_executing' = None
            /\ UNCHANGED <<worker_vars, hist_vars, exec_vars, sigq,
                           execution_stats, clock, frame_vars, store_ops,
                           store_vars>>

\* execute_macro(macro_id, variables), called and returning in one step
ExecuteMacro(macro_id, overrides) ==
    /\ is_initialized
    /\ IF ExecuteOutcome(macro_id) = "execute"
       THEN /\ RunsDone < RunLimit
            /\ currently_executing' = macro_id
            /\ ExecutorAssign(OGet(macros, macro_id),
                              Merge(global_variables, overrides))
            /\ ThreadStart
            /\ UNCHANGED <<clock, frame_vars, store_vars,
                           execution_stats, loop_stack, sigq, store_ops>>
       ELSE UNCHANGED vars

\* the callback keyboard.add_hotkey was given: lambda mid=macro_id:
\* self.execute_macro(mid)
HotkeyFired(hotkey, macro_id) ==
    /\ <<hotkey, macro_id>> \in registered
    /\ ExecuteMacro(macro_id, EmptyDict)

\* _execute_actions: the worker is in the pause loop and stays in it unless
\* a flag changes
BlockedInPause ==
    running /\ (pc = "pause_sleep" \/ (pc = "pause" /\ is_paused /\ ~should_stop))

\* stop_macro()
StopMacro ==
    /\ is_initialized
    /\ running
    /\ should_stop' = TRUE
    /\ stop_seen' = TRUE
    /\ stop_mark' = IF stop_mark = None /\ BlockedInPause
                    THEN Len(trace) + 1 ELSE stop_mark
    /\ UNCHANGED <<clock, frame_vars, store_vars, currently_executing,
                   execution_stats, macro, variables, loop_stack, is_paused,
                   running, worker_vars, sigq, trace, blocked, accepted,
                   store_ops>>

\* macro_executor.pause_execution()
PauseExecution ==
    /\ is_initialized
    /\ is_paused' = TRUE
    /\ UNCHANGED <<clock, frame_vars, store_vars, currently_executing,
                   execution_stats, macro, variables, loop_stack, should_stop,
                   running, worker_vars, sigq, hist_vars, store_ops>>

\* macro_executor.resume_execution()
ResumeExecution ==
    /\ is_initialized
    /\ is_paused' = FALSE
    /\ UNCHANGED <<clock, frame_vars, store_vars, currently_executing,
                   execution_stats, macro, variables, loop_stack, should_stop,
                   running, worker_vars, sigq, hist_vars, store_ops>>

\* a handler that counts a failed run in the total only
CountFinishedTotalOnly(stats, success, now) ==
    [stats EXCEPT
        !.successful_executions = IF success THEN @ + 1 ELSE @,
        !.total_executed = @ + 1,
        !.last_execution = now]

\* _on_execution_finished: the counters after one finished event
CountFinished(stats, success, now) ==
    [stats EXCEPT
        !.successful_executions = IF success THEN @ + 1 ELSE @,
        !.failed_executions = IF success THEN @ ELSE @ + 1,
        !.total_executed = @ + 1,
        !.last_execution = now]

\* _on_execution_finished(macro_id, success), run by the facade's thread
\* for the oldest queued execution_finished signal
OnExecutionFinished(now) ==
    /\ sigq # <<>>
    /\ now \in Readings
    /\ clock' = now
    /\ execution_stats' = CountFinished(execution_stats, Head(sigq)[2], now)
    /\ currently_executing' = None
    /\ sigq' = Tail(sigq)
    /\ UNCHANGED <<frame_vars, store_vars, exec_vars,
                   worker_vars, hist_vars, store_ops>>

\* ------------------------------------------------------------------ worker

\* what the worker leaves alone in every step
WorkerFrame == UNCHANGED <<clock, frame_vars, store_vars,
                           currently_executing, execution_stats, macro,
                           should_stop, is_paused, stop_seen, accepted,
                           stop_mark, store_ops>>

\* run(): "if not self.macro: return", execution_started.emit, range(...)
RunStart ==
    /\ pc = "run"
    /\ IF macro = None
       THEN /\ pc' = "exit"
            /\ UNCHANGED <<repeat, repeat_total, trace>>
       ELSE /\ trace' = Append(trace, <<"started", heap[macro].id>>)
            /\ repeat_total' = heap[macro].repeat_count
            /\ repeat' = 0
            /\ pc' = "repeat"
    /\ UNCHANGED <<it_macro, idx, action_count, slices, variables, loop_stack,
                   running, sigq, blocked>>
    /\ WorkerFrame

\* run(): the head of "for repeat in range(...)" with "if self.should_stop:
\* break", and the entry of _execute_actions
RepeatHead ==
    /\ pc = "repeat"
    /\ IF repeat >= repeat_total \/ should_stop
       THEN /\ pc' = "finish"
            /\ UNCHANGED <<it_macro, idx, action_count>>
       ELSE /\ action_count' = Len(heap[macro].actions)
            /\ it_macro' = macro
            /\ idx' = 1
            /\ pc' = "action"
    /\ UNCHANGED <<repeat, repeat_total, slices, variables, loop_stack,
                   running, sigq, trace, blocked>>
    /\ WorkerFrame

\* a pass that ends at the end of the list only
PassEndsAtListEnd == idx > Len(heap[it_macro].actions)

\* _execute_actions: the list is exhausted, or "if self.should_stop: break"
PassEnds == idx > Len(heap[it_macro].actions) \/ should_stop

\* _execute_actions: the head of "for i, action in enumerate(...)" with
\* "if self.should_stop: break"
ActionHead ==
    /\ pc = "action"
    /\ IF PassEnds
       THEN pc' = "after_pass"
       ELSE pc' = "pause"
    /\ UNCHANGED <<repeat, repeat_total, it_macro, idx, action_count, slices,
                   variables, loop_stack, running, sigq, trace, blocked>>
    /\ WorkerFrame

\* a pause loop that waits whatever should_stop is
PauseBlocksIgnoresStop == is_paused

\* a pause loop that never waits
PauseBlocksNever == FALSE

\* _execute_actions: the condition of the pause loop
PauseBlocks == is_paused /\ ~should_stop

\* _execute_actions: "while self.is_paused and not self.should_stop"
PauseCheck ==
    /\ pc = "pause"
    /\ pc' = IF PauseBlocks THEN "pause_sleep" ELSE "dispatch"
    /\ blocked' = (blocked \/ PauseBlocks)
    /\ UNCHANGED <<repeat, repeat_total, it_macro, idx, action_count, slices,
                   variables, loop_stack, running, sigq, trace>>
    /\ WorkerFrame

\* a pause loop that goes on with the next action when it wakes
PauseSleepAdvances ==
    /\ pc = "pause_sleep"
    /\ pc' = "action"
    /\ idx' = idx + 1
    /\ UNCHANGED <<repeat, repeat_total, it_macro, action_count, slices,
                   variables, loop_stack, running, sigq, trace, blocked>>
    /\ WorkerFrame

\* _execute_actions: time.sleep(0.1) of the pause loop, one slice
PauseSleep ==
    /\ pc = "pause_sleep"
    /\ pc' = "pause"
    /\ UNCHANGED <<repeat, repeat_total, it_macro, idx, action_count, slices,
                   variables, loop_stack, running, sigq, trace, blocked>>
    /\ WorkerFrame

\* a key press that reaches no injector
KeyPressCallsNone(action) == <<>>

\* _execute_key_press: the InputInjector calls it issues
KeyPressCalls(action) ==
    IF ~KEYBOARD_AVAILABLE THEN <<>>
    ELSE LET key == Get(action.parameters, "key", "")
         IN  IF key # "" THEN << <<"call", "press_and_release", key>> >>
             ELSE <<>>

\* keyboard.press_and_release(key): the names the library cannot map to a
\* key, for which it raises ValueError
UnknownKeys == {"bad"}

InjectorRaises(key) == key \in UnknownKeys

\* _execute_key_hold gets as far as keyboard.press(key)
KeyHoldHolds(action) ==
    KEYBOARD_AVAILABLE /\ Get(action.parameters, "key", "") # ""

\* _execute_key_hold: the slices of time.sleep(duration); the default of 0.1 s
\* is one slice
HoldSlices(action) == Get(action.parameters, "duration", 1)

\* time.sleep(secs) raises ValueError for a negative length
SleepRaises(secs) == secs < 0

\* _execute_key_hold: keyboard.press(key), the call it issues before it sleeps
KeyHoldCalls(action) ==
    IF KeyHoldHolds(action)
          /\ ~InjectorRaises(Get(action.parameters, "key", ""))
    THEN << <<"call", "press", Get(action.parameters, "key", "")>> >>
    ELSE <<>>

\* _execute_key_hold raises: in keyboard.press(key), or after it in
\* time.sleep(duration)
KeyHoldRaises(action) ==
    /\ action.action_type = "KEY_HOLD"
    /\ KeyHoldHolds(action)
    /\ \/ InjectorRaises(Get(action.parameters, "key", ""))
       \/ SleepRaises(HoldSlices(action))

\* the action types _execute_action has no branch for
ReservedTypes == {"CONDITION", "HOTKEY_TRIGGER"}

\* an _execute_action that ends in "else: raise" for those types
RaisesOnReserved(action) ==
    \/ action.action_type \in ReservedTypes
    \/ KeyHoldRaises(action)
    \/ /\ action.action_type = "KEY_PRESS"
       /\ KEYBOARD_AVAILABLE
       /\ LET key == Get(action.parameters, "key", "")
          IN  key # "" /\ InjectorRaises(key)

\* _execute_action(action) raises: the call of _execute_key_press or of
\* _execute_key_hold does
Raises(action) ==
    \/ KeyHoldRaises(action)
    \/ /\ action.action_type = "KEY_PRESS"
       /\ KEYBOARD_AVAILABLE
       /\ LET key == Get(action.parameters, "key", "")
          IN  key # "" /\ InjectorRaises(key)

\* _execute_loop_start
ExecuteLoopStart(stack, action) ==
    Append(stack, [iterations |-> Get(action.parameters, "iterations", 1),
                   current |-> 0])

\* a _execute_loop_end that opens a loop when none is open
ExecuteLoopEndOpens(stack) ==
    IF stack # <<>>
    THEN LET top == Len(stack)
             current == stack[top].current + 1
         IN  IF current < stack[top].iterations
             THEN [stack EXCEPT ![top].current = current]
             ELSE SubSeq(stack, 1, top - 1)
    ELSE << [iterations |-> 1, current |-> 0] >>

\* _execute_loop_end
ExecuteLoopEnd(stack) ==
    IF stack # <<>>
    THEN LET top == Len(stack)
             current == stack[top].current + 1
         IN  IF current < stack[top].iterations
             THEN [stack EXCEPT ![top].current = current]
             ELSE SubSeq(stack, 1, top - 1)
    ELSE stack

\* _execute_loop_end: the index the pass goes on with after the LoopEnd at i
\* (the "Continue loop" branch is "pass": the index is never moved back)
LoopEndNext(stack, i) == i + 1

\* _execute_variable_set
ExecuteVariableSet(vs, action) ==
    LET var_name == Get(action.parameters, "name", "")
        var_value == Get(action.parameters, "value", "")
    IN  IF var_name # "" THEN DictPut(vs, var_name, var_value) ELSE vs

\* _execute_delay: the slices time.sleep(duration) takes
DelaySlices(action) == Get(action.parameters, "duration", 1)

\* _execute_action: the action goes into a time.sleep, of _execute_delay or
\* of _execute_key_hold
Sleeps(action) ==
    \/ action.action_type = "DELAY"
    \/ action.action_type = "KEY_HOLD" /\ KeyHoldHolds(action)

\* a pass that skips nothing
SkipsNothing(action) == FALSE

\* _execute_actions: "if not action.enabled: continue"
Skips(action) == ~action.enabled

\* _execute_actions: "if not action.enabled: continue", then _execute_action,
\* whose exception is caught and logged by "except Exception as e"
Dispatch ==
    /\ pc = "dispatch"
    /\ LET action == heap[it_macro].actions[idx]
           t == action.action_type
       IN  IF Skips(action)
           THEN /\ idx' = idx + 1
                /\ pc' = "action"
                /\ UNCHANGED <<slices, variables, loop_stack, trace>>
           ELSE /\ trace' = Append(trace, <<"dispatch", idx, action.id>>)
                             \o (IF t = "KEY_PRESS" THEN KeyPressCalls(action)
                                 ELSE IF t = "KEY_HOLD" THEN KeyHoldCalls(action)
                                 ELSE <<>>)
                             \o (IF Raises(action)
                                 THEN << <<"logged", "error", action.id>> >>
                                 ELSE <<>>)
                /\ loop_stack' =
                     IF t = "LOOP_START"
                     THEN ExecuteLoopStart(loop_stack, action)
                     ELSE IF t = "LOOP_END" THEN ExecuteLoopEnd(loop_stack)
                     ELSE loop_stack
                /\ variables' =
                     IF t = "VARIABLE_SET"
                     THEN ExecuteVariableSet(variables, action)
                     ELSE variables
                /\ slices' = IF Raises(action) THEN 0
                             ELSE IF t = "DELAY" THEN DelaySlices(action)
                             ELSE IF Sleeps(action) THEN HoldSlices(action)
                             ELSE 0
                /\ pc' = IF Raises(action) THEN "action"
                         ELSE IF Sleeps(action) THEN "sleep" ELSE "emit"
                /\ idx' = IF Raises(action) THEN idx + 1 ELSE idx
    /\ UNCHANGED <<repeat, repeat_total, it_macro, action_count, running, sigq, blocked>>
    /\ WorkerFrame

\* _execute_delay: whether time.sleep(duration) goes on sleeping
DelaySleeps == slices > 0

\* _execute_key_hold: keyboard.release(key), the call it issues after the sleep
KeyHoldRelease(action) ==
    IF action.action_type = "KEY_HOLD"
    THEN << <<"call", "release", Get(action.parameters, "key", "")>> >>
    ELSE <<>>

\* _execute_delay, _execute_key_hold: time.sleep(duration), one slice of it,
\* or its return, after which _execute_key_hold releases the key
DelaySleep ==
    /\ pc = "sleep"
    /\ LET action == heap[it_macro].actions[idx]
       IN  IF DelaySleeps
           THEN /\ slices' = slices - 1
                /\ pc' = "sleep"
                /\ trace' = Append(trace,
                       <<"slept", IF action.action_type = "KEY_HOLD"
                                  THEN "hold" ELSE "delay">>)
           ELSE /\ slices' = 0
                /\ pc' = "emit"
                /\ trace' = trace \o KeyHoldRelease(action)
    /\ UNCHANGED <<repeat, repeat_total, it_macro, idx, action_count,
                   variables, loop_stack, running, sigq, blocked>>
    /\ WorkerFrame

\* a worker that reports the progress before the action
EmitsProgressFirst(macro_id, description, i, count) ==
    << <<"progress", macro_id, i, count>>,
       <<"action_executed", macro_id, description>> >>

\* _execute_actions: action_executed.emit(...) and then
\* execution_progress.emit(self.macro.id, i + 1, action_count)
Emits(macro_id, description, i, count) ==
    << <<"action_executed", macro_id, description>>,
       <<"progress", macro_id, i, count>> >>

\* _execute_actions: action_executed.emit and execution_progress.emit; enumerate
\* then yields the next index
EmitExecuted ==
    /\ pc = "emit"
    /\ LET action == heap[it_macro].actions[idx]
           t == action.action_type
           description == IF action.description # "" THEN action.description
                          ELSE ActionTypeValue[t]
       IN  /\ trace' = trace \o
                 Emits(heap[macro].id, description, idx, action_count)
           /\ idx' = IF t = "LOOP_END" THEN LoopEndNext(loop_stack, idx)
                     ELSE idx + 1
    /\ pc' = "action"
    /\ UNCHANGED <<repeat, repeat_total, it_macro, action_count, slices,
                   variables, loop_stack, running, sigq, blocked>>
    /\ WorkerFrame

\* a repeat delay that is waited after the last pass too
RepeatDelaysAfterLast == heap[macro].repeat_delay > 0

\* run(): "if repeat < self.macro.repeat_count - 1 and
\* self.macro.repeat_delay > 0"
RepeatDelays ==
    repeat < heap[macro].repeat_count - 1 /\ heap[macro].repeat_delay > 0

\* run(): after _execute_actions, the repeat delay is entered or skipped
AfterPass ==
    /\ pc = "after_pass"
    /\ IF RepeatDelays
       THEN /\ trace' = Append(trace, <<"repeat_delay">>)
            /\ slices' = heap[macro].repeat_delay
            /\ pc' = "repeat_sleep"
            /\ UNCHANGED repeat
       ELSE /\ repeat' = repeat + 1
            /\ pc' = "repeat"
            /\ UNCHANGED <<slices, trace>>
    /\ UNCHANGED <<repeat_total, it_macro, idx, action_count, variables,
                   loop_stack, running, sigq, blocked>>
    /\ WorkerFrame

\* run(): time.sleep(self.macro.repeat_delay), one slice of it, or its return
RepeatSleep ==
    /\ pc = "repeat_sleep"
    /\ IF slices > 0
       THEN /\ slices' = slices - 1
            /\ trace' = Append(trace, <<"slept", "repeat_delay">>)
            /\ UNCHANGED <<pc, repeat>>
       ELSE /\ repeat' = repeat + 1
            /\ pc' = "repeat"
            /\ UNCHANGED <<slices, trace>>
    /\ UNCHANGED <<repeat_total, it_macro, idx, action_count, variables,
                   loop_stack, running, sigq, blocked>>
    /\ WorkerFrame

\* run(): execution_finished.emit(self.macro.id, not self.should_stop), queued
\* to the facade's thread
Finish ==
    /\ pc = "finish"
    /\ sigq' = Append(sigq, <<heap[macro].id, ~should_stop>>)
    /\ trace' = Append(trace, <<"finished", heap[macro].id, ~should_stop>>)
    /\ pc' = "exit"
    /\ UNCHANGED <<repeat, repeat_total, it_macro, idx, action_count, slices,
                   variables, loop_stack, running, blocked>>
    /\ WorkerFrame

\* run() has returned: its locals are gone, the thread ends and isRunning()
\* turns false
ThreadExit ==
    /\ pc = "exit"
    /\ running' = FALSE
    /\ pc' = "idle"
    /\ repeat' = 0
    /\ repeat_total' = 0
    /\ it_macro' = None
    /\ idx' = 0
    /\ action_count' = 0
    /\ slices' = 0
    /\ trace' = <<>>
    /\ stop_seen' = FALSE
    /\ blocked' = FALSE
    /\ accepted' = [id |-> NoId]
    /\ stop_mark' = None
    /\ UNCHANGED <<clock, frame_vars, store_vars, currently_executing,
                   execution_stats, macro, variables, loop_stack, should_stop,
                   is_paused, sigq, store_ops>>

Worker ==
    \/ RunStart
    \/ RepeatHead
    \/ ActionHead
    \/ PauseCheck
    \/ PauseSleep
    \/ Dispatch
    \/ DelaySleep
    \/ EmitExecuted
    \/ AfterPass
    \/ RepeatSleep
    \/ Finish
    \/ ThreadExit

\* -------------------------------------------------------------- mouse move

\* steps = max(10, int(duration * 100)): the least number of steps
MinSteps == 10

\* a position is held in units of 1 / Scale pixel, a quotient rounded down to
\* that unit
Scale == 2 * MinSteps

\* steps = max(10, int(duration * 100)), the duration in hundredths of a
\* second
MoveSteps(duration) == IF duration > MinSteps THEN duration ELSE MinSteps

\* mouse.move(current_x + dx * i, ...): the coordinate of step i
MoveTo(current, d, i) == current + d * i

\* the MouseMove actions a caller may hand to the executor
MoveInputs ==
    { PAction("mouse_move",
              [x |-> x, y |-> y, relative |-> r, duration |-> d], TRUE, "", 27) :
          x \in {-1, MaxPixel}, y \in {0, 1}, r \in BOOLEAN, d \in {0, 5, 20} }

\* what a step of _execute_mouse_move leaves alone
MouseFrame == UNCHANGED <<worker_vars, hist_vars, exec_vars, sigq,
                          currently_executing, execution_stats, clock,
                          KEYBOARD_AVAILABLE, MOUSE_AVAILABLE, global_variables,
                          call, store_ops, store_vars>>

\* _execute_mouse_move(action), up to the loop of the smooth movement or, with
\* no duration, to its return; followed for the targets on the screen
MouseMoveEnter(action) ==
    /\ mouse_move.pc = "idle"
    /\ mouse_move.calls < MaxMoves
    /\ LET p == action.parameters
           relative == Get(p, "relative", FALSE)
           duration == Get(p, "duration", 0)
           x == Get(p, "x", 0) * Scale + (IF relative THEN pointer[1] ELSE 0)
           y == Get(p, "y", 0) * Scale + (IF relative THEN pointer[2] ELSE 0)
           steps == MoveSteps(duration)
       IN  /\ x \in 0 .. (MaxPixel * Scale)
           /\ y \in 0 .. (MaxPixel * Scale)
           /\ IF ~MOUSE_AVAILABLE
              THEN /\ mouse_move' = [mouse_move EXCEPT !.calls = @ + 1]
                   /\ UNCHANGED pointer
              ELSE IF duration > 0
              THEN /\ mouse_move' =
                        [pc |-> "loop", x |-> x, y |-> y,
                         current_x |-> pointer[1], current_y |-> pointer[2],
                         steps |-> steps,
                         dx |-> (x - pointer[1]) \div steps,
                         dy |-> (y - pointer[2]) \div steps,
                         i |-> 0, smooth |-> TRUE, broke |-> FALSE,
                         calls |-> mouse_move.calls + 1]
                   /\ UNCHANGED pointer
              ELSE /\ pointer' = <<x, y>>
                   /\ mouse_move' =
                        [NoMove EXCEPT !.x = x, !.y = y,
                                       !.current_x = pointer[1],
                                       !.current_y = pointer[2],
                                       !.calls = mouse_move.calls + 1]
    /\ MouseFrame

\* _execute_mouse_move: one turn of "for i in range(steps)" with
\* "if self.should_stop: break", mouse.move and the sleep of the step
MouseMoveStep ==
    /\ mouse_move.pc = "loop"
    /\ IF mouse_move.i >= mouse_move.steps
       THEN /\ mouse_move' = [mouse_move EXCEPT !.pc = "idle"]
            /\ UNCHANGED pointer
       ELSE IF should_stop
       THEN /\ mouse_move' = [mouse_move EXCEPT !.pc = "idle", !.broke = TRUE]
            /\ UNCHANGED pointer
       ELSE /\ pointer' =
                 <<MoveTo(mouse_move.current_x, mouse_move.dx, mouse_move.i),
                   MoveTo(mouse_move.current_y, mouse_move.dy, mouse_move.i)>>
            /\ mouse_move' = [mouse_move EXCEPT !.i = @ + 1]
    /\ MouseFrame

\* MacroExecutor.stop_execution()
StopExecution ==
    /\ ~should_stop
    /\ should_stop' = TRUE
    /\ UNCHANGED <<worker_vars, hist_vars, macro, variables, loop_stack,
                   is_paused, running, sigq, currently_executing,
                   execution_stats, clock, frame_vars, store_ops, store_vars>>

\* ------------------------------------------- execute_macro, by statement

\* what a statement of a call leaves alone besides what it assigns
CallFrame == UNCHANGED <<clock, KEYBOARD_AVAILABLE, MOUSE_AVAILABLE, pointer,
                         mouse_move, global_variables, store_vars,
                         execution_stats, loop_stack, sigq, store_ops>>

\* execute_macro: the three checks, up to "Check if already executing"; a hotkey
\* callback is the call of a registered hotkey
CallEnter(t, macro_id) ==
    /\ is_initialized
    /\ call[t].pc = "idle"
    /\ t = "hk" => \E h \in Hotkeys : <<h, macro_id>> \in registered
    /\ ExecuteOutcome(macro_id) = "execute"
    /\ RunsDone < RunLimit
    /\ call' = [call EXCEPT ![t] = [pc |-> "set_current", macro_id |-> macro_id,
                                    m |-> OGet(macros, macro_id)]]
    /\ UNCHANGED <<currently_executing, exec_vars, worker_vars, hist_vars>>
    /\ CallFrame

\* execute_macro: self.currently_executing = macro_id
CallSetCurrent(t) ==
    /\ call[t].pc = "set_current"
    /\ currently_executing' = call[t].macro_id
    /\ call' = [call EXCEPT ![t].pc = "assign_macro"]
    /\ UNCHANGED <<exec_vars, worker_vars, hist_vars>>
    /\ CallFrame

\* MacroExecutor.execute_macro: self.macro = macro
CallAssignMacro(t) ==
    /\ call[t].pc = "assign_macro"
    /\ macro' = call[t].m
    /\ call' = [call EXCEPT ![t].pc = "assign_variables"]
    /\ UNCHANGED <<currently_executing, variables, loop_stack, should_stop,
                   is_paused, running, worker_vars, hist_vars>>
    /\ CallFrame

\* MacroExecutor.execute_macro: self.variables = variables or {}
CallAssignVariables(t) ==
    /\ call[t].pc = "assign_variables"
    /\ variables' = Merge(global_variables, EmptyDict)
    /\ call' = [call EXCEPT ![t].pc = "assign_flags"]
    /\ UNCHANGED <<currently_executing, macro, loop_stack, should_stop,
                   is_paused, running, worker_vars, hist_vars>>
    /\ CallFrame

\* MacroExecutor.execute_macro: self.should_stop = False; self.is_paused = False
CallAssignFlags(t) ==
    /\ call[t].pc = "assign_flags"
    /\ should_stop' = FALSE
    /\ is_paused' = FALSE
    /\ call' = [call EXCEPT ![t].pc = "start"]
    /\ UNCHANGED <<currently_executing, macro, variables, loop_stack, running,
                   worker_vars, hist_vars>>
    /\ CallFrame

\* MacroExecutor.execute_macro: self.start(), and the call returns
CallStart(t) ==
    /\ call[t].pc = "start"
    /\ UNCHANGED <<currently_executing, macro, variables, loop_stack,
                   should_stop, is_paused>>
    /\ ThreadStart
    /\ call' = [call EXCEPT ![t] = IdleCall]
    /\ CallFrame

\* ------------------------------------------------------ store round trip

\* _save_macros() called on its own (shutdown, or a caller's explicit save)
SaveMacrosCall ==
    /\ is_initialized
    /\ store_ops < MaxStoreOps
    /\ store_ops' = store_ops + 1
    /\ plugin_config' =
         [plugin_config EXCEPT !.saved_macros = SaveMacros(macros, heap)]
    /\ plugin_config' # plugin_config
    /\ UNCHANGED <<clock, frame_vars, is_initialized, heap, macros,
                   hotkey_bindings, registered, currently_executing,
                   execution_stats, exec_vars, worker_vars, sigq, hist_vars>>

\* plugin._save_macros(); plugin.macros.clear(); plugin._load_macros()
\* The objects of the cleared store are unreachable once no run holds one,
\* so the reloaded objects take the addresses from 1 on.
RoundTrip(now) ==
    /\ is_initialized
    /\ store_ops < MaxStoreOps
    /\ store_ops' = store_ops + 1
    /\ macro = None
    /\ macros # <<>>
    /\ now \in Readings
    /\ clock' = now
    /\ LET saved == SaveMacros(macros, heap)
           loaded == LoadMacros(<<>>, <<>>, hotkey_bindings, saved, now)
       IN  /\ plugin_config' = [plugin_config EXCEPT !.saved_macros = saved]
           /\ macros' = loaded.macros
           /\ heap' = loaded.heap
           /\ hotkey_bindings' = loaded.hotkey_bindings
    /\ UNCHANGED <<frame_vars, is_initialized, registered,
                   currently_executing, execution_stats, exec_vars,
                   worker_vars, sigq, hist_vars>>

\* ---------------------------------------------------------- specifications

\* The persisted collections the runs are checked on.
RunCollections ==
    { << <<1, PMacro("seq", <<KeyA, Wait2, KeyBOff, SetX>>, "h1", TRUE, 2, 2, 1, 1)>> >>,
      << <<1, PMacro("loop", <<Loop3, Wait1, LoopEnd>>, "", TRUE, 1, 0, 1, 1)>> >>,
      << <<1, PMacro("keys", <<KeyA, KeyB>>, "", TRUE, 3, 1, 1, 1)>> >>,
      << <<1, PMacro("fast", <<KeyBOff, SetYOff, KeyA, Loop2Off, Wait1>>,
                   "", TRUE, 2, 0, 1, 1)>> >>,
      << <<1, PMacro("one", <<KeyA>>, "", TRUE, 1, 0, 1, 1)>> >>,
      << <<1, PMacro("err", <<KeyBad, KeyA>>, "", TRUE, 2, 0, 1, 1)>> >>,
      << <<1, PMacro("rsv", <<Cond, Trigger, KeyA>>, "", TRUE, 1, 0, 1, 1)>> >> }

\* The persisted collections the store is checked on.
StoreCollections ==
    { <<>>,
      << <<1, PMacro("seq", <<KeyA, Wait1>>, "h1", TRUE, 2, 1, 1, 1)>>,
         <<2, PMacro("off", <<KeyA>>, "h2", FALSE, 1, 0, 1, 1)>> >>,
      << <<1, PMacro("one", <<SetX>>, "h1", TRUE, 1, 0, 1, 2)>>,
         <<2, PMacro("two", <<Loop3, LoopEnd>>, "h1", TRUE, 1, 0, 2, 2)>> >>,
      << <<1, PMacro("good", <<KeyA>>, "h1", TRUE, 1, 0, 1, 1)>>,
         <<2, PMacro("odd", <<KeyA, Teleport>>, "h2", TRUE, 1, 0, 1, 1)>>,
         <<3, PMacro("late", <<KeyB>>, "", TRUE, 1, 0, 1, 1)>> >> }

\* The persisted collections the hotkey listener is checked on.
HotkeyCollections ==
    { << <<1, PMacro("seq", <<KeyA, Wait1>>, "h1", TRUE, 2, 1, 1, 1)>>,
         <<2, PMacro("two", <<KeyB>>, "h2", TRUE, 1, 0, 1, 1)>> >>,
      << <<1, PMacro("odd", <<KeyA>>, "hx", TRUE, 1, 0, 1, 1)>>,
         <<2, PMacro("two", <<KeyB>>, "h2", TRUE, 1, 0, 1, 1)>> >> }

\* The engine: the facade calls of the UI thread and of fired hotkeys, each
\* running to its return, the worker, and the delivery of its signals.
Init == InitOf(Collections, {TRUE}, {TRUE}, {GlobalVariables})

Next ==
    \/ \E now \in Times : Initialize(now)
    \/ \E id \in CallIds : DeleteMacro(id)
    \/ \E id \in CallIds, e \in BOOLEAN : EditEnabled(id, e)
    \/ \E id \in CallIds : ExecuteMacro(id, EmptyDict)
    \/ \E h \in Hotkeys, id \in CallIds : HotkeyFired(h, id)
    \/ StopMacro
    \/ PauseExecution
    \/ ResumeExecution
    \/ \E now \in Times : OnExecutionFinished(now)
    \/ Worker

Spec == Init /\ [][Next]_vars

\* The runs of a variety of macros, with stop, pause and resume.
InitRun == InitOf(RunCollections, BOOLEAN, {TRUE}, {GlobalVariables})

NextRun ==
    \/ \E now \in Times : Initialize(now)
    \/ \E id \in CallIds : ExecuteMacro(id, EmptyDict)
    \/ StopMacro
    \/ PauseExecution
    \/ ResumeExecution
    \/ \E now \in Times : OnExecutionFinished(now)
    \/ Worker

SpecRun == InitRun /\ [][NextRun]_vars

\* The hotkey listener: with and without the keyboard library, with a
\* hotkey the library rejects, and the facade calls next to it.
InitHotkey == InitOf(HotkeyCollections, BOOLEAN, {TRUE}, {GlobalVariables})

NextHotkey ==
    \/ \E now \in Times : Initialize(now)
    \/ \E id \in CallIds : DeleteMacro(id)
    \/ \E id \in CallIds : ExecuteMacro(id, EmptyDict)
    \/ \E h \in Hotkeys \cup UnparsableHotkeys, id \in CallIds : HotkeyFired(h, id)
    \/ StopMacro
    \/ PauseExecution
    \/ ResumeExecution
    \/ \E now \in Times : OnExecutionFinished(now)
    \/ Worker

SpecHotkey == InitHotkey /\ [][NextHotkey]_vars

\* The persisted collection, the global variables and the overrides the
\* variables of a run are checked on.
VarCollections ==
    { << <<1, PMacro("vars", <<SetX, Wait1, SetNone>>, "", TRUE, 2, 1, 1, 1)>> >> }

GlobalDefaults == {EmptyDict, [x |-> 5, z |-> 6]}

Overrides == {EmptyDict, [x |-> 7], [y |-> 2]}

\* Runs started with overrides, by a host that has or has not put values in
\* the plugin's global_variables.
InitVars == InitOf(VarCollections, {TRUE}, {TRUE}, GlobalDefaults)

NextVars ==
    \/ \E now \in Times : Initialize(now)
    \/ \E id \in CallIds, o \in Overrides : ExecuteMacro(id, o)
    \/ StopMacro
    \/ PauseExecution
    \/ ResumeExecution
    \/ \E now \in Times : OnExecutionFinished(now)
    \/ Worker

SpecVars == InitVars /\ [][NextVars]_vars

\* The persisted collections the key holds are checked on.
HoldCollections ==
    { << <<1, PMacro("hold", <<HoldA, KeyB>>, "", TRUE, 2, 1, 1, 1)>> >>,
      << <<1, PMacro("neg", <<HoldNeg, KeyB>>, "", TRUE, 1, 0, 1, 1)>> >> }

\* Runs of macros that hold keys, with stop, pause and resume.
InitHold == InitOf(HoldCollections, BOOLEAN, {TRUE}, {GlobalVariables})

NextHold ==
    \/ \E now \in Times : Initialize(now)
    \/ \E id \in CallIds : ExecuteMacro(id, EmptyDict)
    \/ StopMacro
    \/ PauseExecution
    \/ ResumeExecution
    \/ \E now \in Times : OnExecutionFinished(now)
    \/ Worker

SpecHold == InitHold /\ [][NextHold]_vars

\* The persisted collections the unmatched LoopEnd actions are checked on: a
\* LoopEnd before any LoopStart, and a LoopEnd after the loop was closed.
LoopCollections ==
    { << <<1, PMacro("stray", <<LoopEnd, Wait1, KeyA>>, "", TRUE, 2, 1, 1, 1)>> >>,
      << <<1, PMacro("extra", <<Loop3, LoopEnd, LoopEnd, LoopEnd, LoopEnd, KeyB>>,
                   "", TRUE, 1, 0, 1, 1)>> >> }

\* Runs of macros with unmatched LoopEnd actions, with stop, pause and resume.
InitLoop == InitOf(LoopCollections, {TRUE}, {TRUE}, {GlobalVariables})

SpecLoop == InitLoop /\ [][NextRun]_vars

\* MouseMove actions handed to the executor one after the other, on a host
\* with or without the mouse library.
InitMouse == InitWith({<<>>}, {TRUE}, BOOLEAN, {TRUE}, {GlobalVariables})

NextMouse ==
    \/ \E action \in MoveInputs : MouseMoveEnter(action)
    \/ MouseMoveStep
    \/ StopExecution

SpecMouse == InitMouse /\ [][NextMouse]_vars

\* The persisted collection the termination of a run is checked on.
LiveCollections ==
    { << <<1, PMacro("seq", <<KeyA, Wait1, KeyB>>, "", TRUE, 2, 1, 1, 1)>> >> }

\* The runs of a macro with stop, pause and resume, the executor's thread
\* being scheduled as long as it has a step to take.
InitLive == InitOf(LiveCollections, {TRUE}, {TRUE}, {GlobalVariables})

SpecLive == InitLive /\ [][NextRun]_vars /\ WF_vars(Worker)

\* The macro store, its hotkey map and its persisted form.
InitStore == InitOf(StoreCollections, {TRUE}, BOOLEAN, {GlobalVariables})

NextStore ==
    \/ \E now \in Times : Initialize(now)
    \/ \E now \in Times : CreateMacro("New Macro", "General", now)
    \/ \E id \in CallIds : DeleteMacro(id)
    \/ \E id \in CallIds, h \in Hotkeys \cup {NoHotkey} : EditHotkey(id, h)
    \/ \E id \in CallIds, e \in BOOLEAN : EditEnabled(id, e)
    \/ SaveMacrosCall
    \/ \E now \in Times : RoundTrip(now)

SpecStore == InitStore /\ [][NextStore]_vars

\* The persisted collection the concurrent calls are checked on.
RaceCollections ==
    { << <<1, PMacro("seq", <<KeyA, Wait1>>, "h1", TRUE, 2, 1, 1, 1)>>,
         <<2, PMacro("keys", <<KeyB>>, "h2", TRUE, 1, 0, 1, 1)>> >> }

\* execute_macro called by the UI thread and by the hotkey backend's thread,
\* statement by statement, beside the worker.
InitRace == InitOf(RaceCollections, {TRUE}, {TRUE}, {GlobalVariables})

NextRace ==
    \/ \E now \in Times : Initialize(now)
    \/ \E t \in Threads, id \in CallIds : CallEnter(t, id)
    \/ \E t \in Threads : CallSetCurrent(t)
    \/ \E t \in Threads : CallAssignMacro(t)
    \/ \E t \in Threads : CallAssignVariables(t)
    \/ \E t \in Threads : CallAssignFlags(t)
    \/ \E t \in Threads : CallStart(t)
    \/ call["ui"].pc = "idle" /\ PauseExecution
    \/ call["ui"].pc = "idle" /\ ResumeExecution
    \/ \E now \in Times : OnExecutionFinished(now)
    \/ Worker

SpecRace == InitRace /\ [][NextRace]_vars

\* The persisted collection the edits during a run are checked on.
EditCollections ==
    { << <<1, PMacro("seq", <<KeyA, Wait1>>, "h1", TRUE, 2, 1, 1, 1)>> >> }

\* A run beside the UI thread's edits of the stored macro.
InitEdit == InitOf(EditCollections, {TRUE}, {TRUE}, {GlobalVariables})

NextEdit ==
    \/ \E now \in Times : Initialize(now)
    \/ \E id \in CallIds : ExecuteMacro(id, EmptyDict)
    \/ \E id \in CallIds, n \in 1 .. 2, e \in BOOLEAN :
           EditActionEnabled(id, n, e)
    \/ \E id \in CallIds, k \in 1 .. 3 : EditRepeatCount(id, k)
    \/ \E id \in CallIds, d \in 0 .. 1 : EditRepeatDelay(id, d)
    \/ \E id \in CallIds : DeleteMacro(id)
    \/ PauseExecution
    \/ ResumeExecution
    \/ \E now \in Times : OnExecutionFinished(now)
    \/ Worker

SpecEdit == InitEdit /\ [][NextEdit]_vars

\* ------------------------------------------------------------ properties

\* the worker has emitted execution_finished and run() is returning: the
\* trace of the run is complete
RunComplete == running /\ pc = "exit" /\ macro # None

\* n entries of one slice slept in the wait `what`
RECURSIVE Slept(_, _)
Slept(what, n) ==
    IF n <= 0 THEN <<>> ELSE << <<"slept", what>> >> \o Slept(what, n - 1)

\* what one enabled action adds to the trace when nothing interferes
ActionTrace(m, i) ==
    LET action == m.actions[i]
        t == action.action_type
        description == IF action.description # "" THEN action.description
                       ELSE ActionTypeValue[t]
    IN  << <<"dispatch", i, action.id>> >>
        \o (IF t = "KEY_PRESS" THEN KeyPressCalls(action)
            ELSE IF t = "KEY_HOLD" THEN KeyHoldCalls(action) ELSE <<>>)
        \o (IF Raises(action) THEN << <<"logged", "error", action.id>> >>
            ELSE (IF t = "DELAY" THEN Slept("delay", DelaySlices(action))
                  ELSE IF Sleeps(action)
                  THEN Slept("hold", HoldSlices(action)) \o KeyHoldRelease(action)
                  ELSE <<>>)
                 \o << <<"action_executed", m.id, description>>,
                       <<"progress", m.id, i, Len(m.actions)>> >>)

\* one pass over the actions from index i on, in sequence order
RECURSIVE PassTrace(_, _)
PassTrace(m, i) ==
    IF i > Len(m.actions) THEN <<>>
    ELSE (IF m.actions[i].enabled THEN ActionTrace(m, i) ELSE <<>>)
         \o PassTrace(m, i + 1)

\* the wait between two passes
RepeatWait(m) ==
    IF m.repeat_delay > 0
    THEN << <<"repeat_delay">> >> \o Slept("repeat_delay", m.repeat_delay)
    ELSE <<>>

\* the passes k .. repeat_count, each followed by the wait but the last
RECURSIVE PassesTrace(_, _)
PassesTrace(m, k) ==
    IF k > m.repeat_count THEN <<>>
    ELSE PassTrace(m, 1)
         \o (IF k < m.repeat_count THEN RepeatWait(m) ELSE <<>>)
         \o PassesTrace(m, k + 1)

\* the trace of a run of m that is neither stopped nor paused
RunTrace(m) ==
    << <<"started", m.id>> >> \o PassesTrace(m, 1)
        \o << <<"finished", m.id, TRUE>> >>

NoLoops(m) ==
    \A n \in DOMAIN m.actions :
        m.actions[n].action_type \notin {"LOOP_START", "LOOP_END"}

\* the entries of a trace a predicate picks; the entries differ in length and
\* type, so they are told apart by their first element
IsDispatch(e) == e[1] = "dispatch"
IsPassStep(e) ==
    \/ e[1] = "dispatch"
    \/ e[1] = "repeat_delay"
    \/ (e[1] = "slept" /\ e[2] = "repeat_delay")
IsEnabledAction(a) == a.enabled

\* a trace without the positions of the actions in the list: a dispatch is
\* named by the action's id, and the progress events (index, count) are left
\* out
RECURSIVE Effects(_)
Effects(tr) ==
    IF tr = <<>> THEN <<>>
    ELSE LET e == Head(tr)
         IN  (IF e[1] = "progress" THEN <<>>
              ELSE IF e[1] = "dispatch" THEN << <<"dispatch", e[3]>> >>
              ELSE <<e>>)
             \o Effects(Tail(tr))

WithoutDisabled(m) ==
    [m EXCEPT !.actions = SelectSeq(m.actions, IsEnabledAction)]

\* C1: an execute_macro call made while the executor's thread is running
\* (executing, or blocked in the pause wait) takes one of the returns that
\* reject it: the step starts no run, queues nothing, and leaves the
\* executor's macro, variables, should_stop, is_paused and
\* currently_executing, and every other variable, as they were: while the
\* thread is running, no execute_macro call can take a step that changes
\* anything.
C1_BusyRejects ==
    running =>
        \A id \in CallIds :
            ~ENABLED (ExecuteMacro(id, EmptyDict) /\ vars' # vars)

\* a run is blocked in the pause wait, and an enabled macro of the store is
\* refused for it
C1_Witness ==
    /\ running
    /\ pc = "pause_sleep"
    /\ currently_executing # None
    /\ \E id \in OKeys(macros) :
           Stored(id).enabled /\ ExecuteOutcome(id) = "already_running"

\* C2: whatever the interleaving of execute_macro called by the UI thread and
\* by the hotkey backend's thread, the events of a worker run (started,
\* action_executed, progress, finished) all carry the id of one macro, the one
\* announced by started, and that macro is the executor's macro as long as the
\* run lasts.
C2_OneMacroPerRun ==
    (running /\ trace # <<>>) =>
        /\ \A n \in DOMAIN trace :
               trace[n][1] \in {"started", "action_executed", "progress",
                                "finished"}
                   => trace[n][2] = trace[1][2]
        /\ heap[macro].id = trace[1][2]

\* C3: a run of a macro without loop actions, with no stop and no pause taking
\* effect, dispatches its enabled actions as repeat_count complete passes in
\* sequence order, one after the other, and waits the repeat delay between
\* two consecutive passes only: repeat_count - 1 times, never after the last.
C3_RepeatCount ==
    (RunComplete /\ ~stop_seen /\ ~blocked /\ NoLoops(heap[macro])) =>
        SelectSeq(trace, IsPassStep)
            = SelectSeq(PassesTrace(heap[macro], 1), IsPassStep)

\* a run of three passes with a repeat delay has completed
C3_Witness ==
    /\ RunComplete /\ ~stop_seen /\ ~blocked
    /\ NoLoops(heap[macro])
    /\ heap[macro].repeat_count = 3
    /\ heap[macro].repeat_delay > 0
    /\ Len(SelectSeq(trace, IsDispatch)) = 3 * Len(heap[macro].actions)

\* C4: a completed, undisturbed run of [LoopStart(iterations), Delay, LoopEnd]
\* with repeat_count 1 has dispatched the Delay action `iterations` times.
C4_LoopRepeatsBody ==
    LET m == heap[macro]
    IN  ( /\ RunComplete /\ ~stop_seen
          /\ m.repeat_count = 1
          /\ Len(m.actions) = 3
          /\ m.actions[1].action_type = "LOOP_START"
          /\ m.actions[2].action_type = "DELAY"
          /\ m.actions[3].action_type = "LOOP_END"
          /\ \A n \in 1 .. 3 : m.actions[n].enabled ) =>
            Cardinality({n \in DOMAIN trace :
                            /\ trace[n][1] = "dispatch"
                            /\ trace[n][2] = 2})
                = Get(m.actions[1].parameters, "iterations", 1)

\* C5: once stop_execution has set should_stop, a slice of a Delay that the
\* worker completes is the last slice of that Delay: none of the remaining
\* slices is waited out.
C5_StopEndsDelay ==
    [][(pc = "sleep" /\ should_stop /\ slices' < slices) => slices' = 0]_vars

\* C6: a run that was blocked in the pause wait and resumed, and never
\* stopped, has the trace (actions dispatched, injector calls, slices slept,
\* events emitted) of the run of the same macro with no pause.
C6_PauseCorrect ==
    (RunComplete /\ ~stop_seen) => trace = RunTrace(heap[macro])

\* a run that was blocked in the pause wait has completed
C6_Witness ==
    /\ RunComplete /\ ~stop_seen /\ blocked
    /\ Len(SelectSeq(trace, IsDispatch)) >= 2

\* C7: no entry of a run's trace (dispatch, injector call, action_executed,
\* progress) is of a disabled action; a completed, unstopped run has the
\* dispatches, calls and events of the run of the macro with its disabled
\* actions taken out; and the step that skips a disabled action leaves the
\* variables, the loop stack, the trace and the signal queue alone.
C7_DisabledSkipped ==
    /\ [](running /\ macro # None =>
            /\ \A n \in DOMAIN trace :
                   /\ trace[n][1] = "dispatch"
                          => heap[macro].actions[trace[n][2]].enabled
                   /\ trace[n][1] = "progress"
                          => heap[macro].actions[trace[n][3]].enabled
            /\ (RunComplete /\ ~stop_seen) =>
                   Effects(trace) = Effects(RunTrace(WithoutDisabled(heap[macro]))))
    /\ [][(/\ pc = "dispatch"
           /\ pc' # pc
           /\ ~heap[it_macro].actions[idx].enabled)
              => /\ idx' = idx + 1
                 /\ UNCHANGED <<variables, loop_stack, trace, sigq>>]_vars

\* a run of a macro with disabled key, variable and loop actions has completed
C7_Witness ==
    /\ RunComplete /\ ~stop_seen
    /\ \E n \in DOMAIN heap[macro].actions :
           /\ ~heap[macro].actions[n].enabled
           /\ heap[macro].actions[n].action_type = "VARIABLE_SET"
    /\ \E n \in DOMAIN heap[macro].actions :
           /\ ~heap[macro].actions[n].enabled
           /\ heap[macro].actions[n].action_type = "KEY_PRESS"
    /\ KEYBOARD_AVAILABLE
    /\ Len(SelectSeq(trace, IsDispatch)) = 4

\* C8: execute_macro on a stored macro that is disabled, called by the UI or by
\* a registered hotkey's callback, changes nothing: no run starts, and
\* currently_executing and the statistics stay; and _load_macros leaves the
\* hotkey map with bindings of enabled macros only.
C8_DisabledMacro ==
    [][/\ \A id \in CallIds :
              ( /\ OHas(macros, id)
                /\ ~Stored(id).enabled
                /\ ExecuteMacro(id, EmptyDict) ) => UNCHANGED vars
       /\ \A now \in Times :
              Initialize(now) =>
                  \A h \in DOMAIN hotkey_bindings' :
                      /\ OHas(macros', hotkey_bindings'[h])
                      /\ heap'[OGet(macros', hotkey_bindings'[h])].enabled]_vars

\* a hotkey registered while its macro was enabled, the macro now disabled and
\* no run in flight; and a macro loaded disabled, its hotkey not in the map
C8_Witness ==
    /\ ~running
    /\ \E b \in registered :
           /\ OHas(macros, b[2])
           /\ ~Stored(b[2]).enabled
           /\ ExecuteOutcome(b[2]) = "disabled"
    /\ \E id \in OKeys(macros) :
           /\ ~Stored(id).enabled
           /\ Stored(id).hotkey # NoHotkey
           /\ Stored(id).hotkey \notin DOMAIN hotkey_bindings

\* C9: every value of the hotkey map is the id of a macro of the store.
C9_NoDanglingBinding ==
    \A h \in DOMAIN hotkey_bindings : OHas(macros, hotkey_bindings[h])

\* C10: _save_macros, macros.clear() and _load_macros leave the store with the
\* ids it had, each macro equal to what it was, field for field.
C10_RoundTrip ==
    [][\A now \in Times :
           RoundTrip(now) =>
               /\ OKeys(macros') = OKeys(macros)
               /\ \A id \in OKeys(macros) :
                      heap'[OGet(macros', id)] = Stored(id)]_vars

\* C11: a completed, unstopped run has the trace of the run of the macro as
\* it was when the run was started, whatever the UI thread has written to the
\* stored macro since: its actions' enabled flags, its repeat_count, its
\* repeat_delay, or its removal from the store.
C11_Snapshot ==
    (RunComplete /\ ~stop_seen) => trace = RunTrace(accepted)

\* C12: once the dispatch of an action has raised, the run dispatches no
\* further action, in this pass or in a later repeat, and when it completes
\* its finished event reports failure.
C12_AbortOnError ==
    (running /\ macro # None) =>
        \A n \in DOMAIN trace :
            trace[n][1] = "logged" =>
                /\ \A k \in DOMAIN trace : k > n => trace[k][1] # "dispatch"
                /\ RunComplete =>
                       /\ trace[Len(trace)][1] = "finished"
                       /\ trace[Len(trace)][3] = FALSE

\* C13: with the keyboard library available, an enabled macro made of one
\* enabled key press (a key the injector knows), run once and not stopped,
\* produces exactly: started, the dispatch of the action, one
\* press_and_release of its key, action_executed, progress (1, 1) and
\* finished with success, in that order.
C13_KeyPressEndToEnd ==
    (/\ RunComplete /\ ~stop_seen /\ KEYBOARD_AVAILABLE
     /\ heap[macro].repeat_count = 1
     /\ Len(heap[macro].actions) = 1
     /\ heap[macro].actions[1].action_type = "KEY_PRESS"
     /\ heap[macro].actions[1].enabled
     /\ Get(heap[macro].actions[1].parameters, "key", "") \notin UnknownKeys \cup {""})
    => LET m == heap[macro]
           a == m.actions[1]
           desc == IF a.description # "" THEN a.description ELSE "key_press"
       IN  /\ accepted.enabled
           /\ trace = << <<"started", m.id>>,
                         <<"dispatch", 1, a.id>>,
                         <<"call", "press_and_release", a.parameters["key"]>>,
                         <<"action_executed", m.id, desc>>,
                         <<"progress", m.id, 1, 1>>,
                         <<"finished", m.id, TRUE>> >>

C13_Witness ==
    /\ RunComplete /\ ~stop_seen /\ KEYBOARD_AVAILABLE
    /\ heap[macro].repeat_count = 1
    /\ Len(heap[macro].actions) = 1
    /\ heap[macro].actions[1].action_type = "KEY_PRESS"
    /\ heap[macro].actions[1].enabled
    /\ \E n \in DOMAIN trace : trace[n] = <<"call", "press_and_release", "a">>

\* a hotkey the map holds for a stored, enabled macro that carries it,
\* registered by the listener at initialization
Bound(h) ==
    /\ is_initialized /\ KEYBOARD_AVAILABLE
    /\ h \in DOMAIN hotkey_bindings
    /\ ~AddHotkeyRaises(h)
    /\ OHas(macros, hotkey_bindings[h])
    /\ Stored(hotkey_bindings[h]).enabled
    /\ Stored(hotkey_bindings[h]).hotkey = h

\* C14: for an enabled macro whose hotkey the listener has bound, the backend
\* holds exactly one callback for that hotkey; a firing of the hotkey is one
\* execute_macro call, for the id of that macro and for no other id, and
\* when the engine is idle it starts that macro.
C14_HotkeyDispatch ==
    \A h \in Hotkeys \cup UnparsableHotkeys :
        Bound(h) =>
            LET id == hotkey_bindings[h]
            IN  /\ {b \in registered : b[1] = h} = {<<h, id>>}
                /\ \A other \in CallIds :
                       ENABLED HotkeyFired(h, other) => other = id
                /\ (~running /\ RunsDone < MaxRuns) =>
                       ENABLED (/\ HotkeyFired(h, id)
                                /\ running'
                                /\ currently_executing' = id
                                /\ accepted' = Stored(id))

\* a run started while two hotkeys are bound to two macros
C14_Witness ==
    /\ Bound("h1") /\ Bound("h2")
    /\ hotkey_bindings["h1"] # hotkey_bindings["h2"]
    /\ running /\ currently_executing = hotkey_bindings["h1"]
    /\ trace # <<>>

\* the finished events the current run has emitted
FinishedEvents == {n \in DOMAIN trace : trace[n][1] = "finished"}

\* C15: total_executed = successful_executions + failed_executions in every
\* state; a run emits at most one finished event and exactly one when it is
\* complete; no step decreases a counter; the counters change only in the
\* delivery of one finished event, which adds 1 to total_executed and 1 to
\* exactly one of successful or failed, as the event reports; no execute
\* call, accepted or rejected, changes a counter.
C15_Statistics ==
    /\ [](/\ execution_stats.total_executed =
               execution_stats.successful_executions
                   + execution_stats.failed_executions
          /\ Cardinality(FinishedEvents) <= 1
          /\ RunComplete => Cardinality(FinishedEvents) = 1)
    /\ [][LET old == execution_stats
              new == execution_stats'
          IN  /\ new.total_executed >= old.total_executed
              /\ new.successful_executions >= old.successful_executions
              /\ new.failed_executions >= old.failed_executions
              /\ new # old =>
                    /\ sigq # <<>> /\ sigq' = Tail(sigq)
                    /\ new.total_executed = old.total_executed + 1
                    /\ IF Head(sigq)[2]
                       THEN /\ new.successful_executions =
                                  old.successful_executions + 1
                            /\ new.failed_executions = old.failed_executions
                       ELSE /\ new.failed_executions =
                                  old.failed_executions + 1
                            /\ new.successful_executions =
                                  old.successful_executions
              /\ (Len(trace') > Len(trace) /\ trace'[Len(trace')][1] = "finished")
                    => sigq' = Append(sigq, <<trace'[Len(trace')][2],
                                              trace'[Len(trace')][3]>>)
         ]_vars

\* a stopped run has been counted as failed
C15_Witness ==
    /\ execution_stats.failed_executions = 1
    /\ execution_stats.total_executed = 1
    /\ sigq = <<>>

\* C16: with the keyboard library present and global hotkeys enabled, once
\* the session is initialized the hotkey strings registered with the
\* backend are the keys of the hotkey map, and each registration's callback
\* targets the macro id the map holds for its hotkey.
C16_RegistrationsTrackMap ==
    (is_initialized /\ KEYBOARD_AVAILABLE /\ GlobalHotkeyEnabled) =>
        /\ {b[1] : b \in registered} = DOMAIN hotkey_bindings
        /\ \A b \in registered :
               b[1] \in DOMAIN hotkey_bindings => hotkey_bindings[b[1]] = b[2]

\* the persisted entries whose conversion raises
Offending(saved) == {n \in DOMAIN saved : LoadRaises(saved[n][2])}

\* C17: when the persisted collection holds an entry with an action of
\* unknown action_type, the load leaves the store and the hotkey map as they
\* were before it: after initialize() on such a collection no macro is
\* stored and no hotkey is bound.
C17_LoadAllOrNothing ==
    (is_initialized /\ store_ops = 0
        /\ Offending(plugin_config.saved_macros) # {}) =>
            /\ macros = <<>>
            /\ hotkey_bindings = EmptyDict

\* the action types that go to the keyboard injector
KeyActionTypes == {"KEY_PRESS", "KEY_HOLD", "KEY_RELEASE"}

\* C18: without the keyboard library a key action issues no injector call
\* and no action_executed event follows its dispatch.
C18_BackendAbsent ==
    (~KEYBOARD_AVAILABLE /\ running /\ macro # None) =>
        /\ \A n \in DOMAIN trace : trace[n][1] # "call"
        /\ \A n \in DOMAIN trace :
               (/\ trace[n][1] = "dispatch"
                /\ heap[macro].actions[trace[n][2]].action_type \in KeyActionTypes
                /\ n + 1 \in DOMAIN trace)
               => trace[n + 1][1] # "action_executed"

\* C19: without the keyboard library nothing is registered and no hotkey
\* can trigger execute_macro; with it, a hotkey whose registration raises
\* does not keep the other bindings of the map from being registered; and
\* with or without it create, delete, manual execute and stop are available
\* and act on the store and the executor under the same conditions.
C19_HotkeyFailureContained ==
    /\ ~KEYBOARD_AVAILABLE =>
          /\ registered = {}
          /\ \A h \in Hotkeys \cup UnparsableHotkeys, id \in CallIds :
                 ~ENABLED HotkeyFired(h, id)
    /\ (KEYBOARD_AVAILABLE /\ is_initialized) =>
          \A h \in DOMAIN hotkey_bindings :
              ~AddHotkeyRaises(h) => <<h, hotkey_bindings[h]>> \in registered
    /\ is_initialized =>
          /\ \A id \in OKeys(macros) :
                 /\ (Stored(id).enabled /\ ~running /\ RunsDone < MaxRuns) =>
                        ENABLED (/\ ExecuteMacro(id, EmptyDict)
                                 /\ running' /\ currently_executing' = id)
                 /\ store_ops < MaxStoreOps =>
                        ENABLED (/\ DeleteMacro(id)
                                 /\ ~OHas(macros', id)
                                 /\ registered' = registered)
          /\ (store_ops < MaxStoreOps /\ Len(heap) < MaxHeap) =>
                 ENABLED (/\ \E now \in Times : CreateMacro("New Macro", "General", now)
                          /\ Len(heap') = Len(heap) + 1
                          /\ registered' = registered)
          /\ running => ENABLED (StopMacro /\ should_stop')

\* the listener has met a hotkey it could not register and has registered
\* the one after it
C19_Witness ==
    /\ KEYBOARD_AVAILABLE /\ is_initialized
    /\ \E n \in DOMAIN plugin_config.saved_macros :
           AddHotkeyRaises(plugin_config.saved_macros[n][2].hotkey)
    /\ registered = {<<"h2", 2>>}
    /\ running

\* what the worker does to or for an action
ActionSteps == {"dispatch", "call", "action_executed", "progress"}

\* C20: when stop_execution() is called while the worker is blocked in the
\* pause wait in front of action i, neither action i nor a later action is
\* dispatched, and the run ends with finished reporting failure.
C20_CancelWhilePaused ==
    (running /\ stop_mark # None) =>
        /\ \A n \in DOMAIN trace :
               n >= stop_mark => trace[n][1] \notin ActionSteps
        /\ RunComplete =>
               trace[Len(trace)] = <<"finished", heap[macro].id, FALSE>>

\* the worker has passed the should_stop check in front of action idx and
\* has not dispatched it yet
Committed == pc \in {"pause", "pause_sleep", "dispatch"}

\* the step appends this kind of entry to the trace
Appends(kind) ==
    /\ Len(trace') > Len(trace)
    /\ \E n \in (Len(trace) + 1) .. Len(trace') : trace'[n][1] = kind

\* C21: once stop_execution() has set should_stop, the only action that is
\* still dispatched is the one whose should_stop check the worker had already
\* passed (the action in flight); from then on the worker passes the check
\* of no further action, in this pass or in a later repeat, and the finished
\* event it emits reports failure.
C21_StopEndsDispatch ==
    [][should_stop =>
          /\ Appends("dispatch") => (Committed /\ ~Committed')
          /\ ~Committed => (~Committed' \/ ~should_stop')
          /\ Appends("finished") => trace'[Len(trace')][3] = FALSE
      ]_vars

\* a run stopped outside the pause wait after its first action, ended with
\* the actions after it never dispatched
C21_Witness ==
    /\ RunComplete /\ stop_seen /\ stop_mark = None /\ should_stop
    /\ Cardinality({n \in DOMAIN trace : trace[n][1] = "dispatch"}) = 1
    /\ Cardinality({n \in DOMAIN heap[macro].actions :
                       heap[macro].actions[n].enabled}) > 1
    /\ trace[Len(trace)] = <<"finished", heap[macro].id, FALSE>>

\* C22: once stop_execution() has set should_stop, the worker does not enter
\* a repeat delay of more than one slice, and a slice of the repeat delay
\* that it completes is the last one: the rest of the delay is not waited
\* out.
C22_StopEndsRepeatDelay ==
    [][should_stop =>
          /\ (pc = "after_pass" /\ pc' = "repeat_sleep") => slices' <= 1
          /\ (pc = "repeat_sleep" /\ slices' < slices) => slices' = 0
      ]_vars

\* C23: a run ended by stop_execution() is not reported as a failed
\* execution: its finished event is not the failure report, and its delivery
\* does not count in failed_executions.
C23_CancelledNotFailed ==
    [][/\ (Appends("finished") /\ should_stop) =>
              trace'[Len(trace')][3] # FALSE
       /\ (stop_seen /\ sigq # <<>> /\ sigq' = Tail(sigq)) =>
              execution_stats'.failed_executions =
                  execution_stats.failed_executions
      ]_vars

\* C24: the step that starts an accepted run leaves the executor with an
\* empty loop stack, should_stop and is_paused false, and the variables
\* equal to the global variables merged with the overrides of the call.
C24_FreshContext ==
    [][(~running /\ running') =>
          /\ loop_stack' = <<>>
          /\ ~should_stop' /\ ~is_paused'
          /\ variables' = Merge(global_variables, EmptyDict)
      ]_vars

\* the number of loops open after the first n actions of m
OpenLoops(m, n) ==
    Cardinality({k \in 1 .. n : m.actions[k].action_type = "LOOP_START"})
        - Cardinality({k \in 1 .. n : m.actions[k].action_type = "LOOP_END"})

\* the LoopStart and LoopEnd actions of m are enabled and properly nested
ProperlyNested(m) ==
    /\ \A k \in DOMAIN m.actions :
           m.actions[k].action_type \in {"LOOP_START", "LOOP_END"}
               => m.actions[k].enabled
    /\ \A n \in 0 .. Len(m.actions) : OpenLoops(m, n) >= 0
    /\ OpenLoops(m, Len(m.actions)) = 0

\* the nesting depth of the loops of m
NestingDepth(m) ==
    CHOOSE d \in 0 .. Len(m.actions) :
        /\ \E n \in 0 .. Len(m.actions) : OpenLoops(m, n) = d
        /\ \A n \in 0 .. Len(m.actions) : OpenLoops(m, n) <= d

\* C25: in the first run of a macro whose loops are enabled and properly
\* nested, the loop stack is never deeper than the nesting depth of the
\* macro and is empty when a pass has run to its end.
C25_LoopStackBalanced ==
    (/\ running /\ macro # None /\ RunsDone = 0
     /\ ProperlyNested(heap[macro])
     /\ \E k \in DOMAIN heap[macro].actions :
            heap[macro].actions[k].action_type = "LOOP_START") =>
        /\ Len(loop_stack) <= NestingDepth(heap[macro])
        /\ (pc = "after_pass" /\ ~should_stop) => loop_stack = <<>>

\* the entries that begin something new in a run: the next dispatch, the
\* repeat delay, the end of the run
Marks == {"dispatch", "repeat_delay", "finished"}

\* the position of the first such entry after n, or the end of the trace
NextMark(n) ==
    LET later == {k \in DOMAIN trace : k > n /\ trace[k][1] \in Marks}
    IN  IF later = {} THEN Len(trace) + 1
        ELSE CHOOSE k \in later : \A o \in later : k <= o

\* C26: in the trace of a run, a dispatched action that did not raise has,
\* before the next dispatch, its action_executed event directly followed by
\* its progress event (index of the action, 1-based, and the length of the
\* list), and nothing after them; every progress event carries the index
\* the worker is at, which is at most the length of the list, and the
\* worker's index grows with each progress event and falls back only when a
\* new pass begins.
C26_EventOrder ==
    /\ [](\A n \in DOMAIN trace :
             (/\ trace[n][1] = "dispatch"
              /\ NextMark(n) <= Len(trace)
              /\ \A k \in n .. NextMark(n) : trace[k][1] # "logged") =>
                 LET e == NextMark(n) - 2
                 IN  /\ e > n
                     /\ trace[e][1] = "action_executed"
                     /\ trace[e][2] = heap[macro].id
                     /\ trace[e + 1] = <<"progress", heap[macro].id, trace[n][2],
                                         Len(heap[macro].actions)>>
                     /\ \A k \in (n + 1) .. (e - 1) :
                            trace[k][1] \in {"call", "slept"})
    /\ [][/\ (Appends("progress") =>
                /\ trace'[Len(trace')][1] = "progress"
                /\ trace'[Len(trace')][3] = idx
                /\ idx <= Len(heap[macro].actions)
                /\ idx' > idx)
           /\ (idx' < idx => (pc = "repeat" \/ pc = "exit"))
          ]_vars

\* a completed run of two passes whose events have all been emitted
C26_Witness ==
    /\ RunComplete /\ ~stop_seen
    /\ heap[macro].repeat_count = 2
    /\ Cardinality({n \in DOMAIN trace : trace[n][1] = "progress"}) >= 4
    /\ \E n \in DOMAIN trace : trace[n][1] = "slept"

\* pause_execution() has been called and neither resume_execution() nor
\* stop_execution() after it
Paused == is_paused /\ ~should_stop

\* C27: while the run is paused (and over any step that leaves it paused)
\* the worker does not get past the pause check of an action: the only
\* action it can still dispatch is the one whose pause check it had passed
\* before the pause, and once it is in the pause wait its action index
\* stays where it is.
C27_PauseHolds ==
    [][(running /\ Paused /\ Paused') =>
          /\ pc' = "dispatch" => pc = "dispatch"
          /\ Appends("dispatch") => pc = "dispatch"
          /\ pc \in {"pause", "pause_sleep"} =>
                 /\ pc' \in {"pause", "pause_sleep"}
                 /\ idx' = idx
      ]_vars

\* paused after the first action: the worker waits in front of the second
C27_Witness ==
    /\ running /\ Paused /\ blocked
    /\ pc = "pause_sleep"
    /\ idx = 2
    /\ \E n \in DOMAIN trace : trace[n][1] = "dispatch" /\ trace[n][2] = 1

\* m holds every key of g and of o and no other, with the value of o for
\* the keys of o and the value of g for the rest
IsMerge(m, g, o) ==
    /\ DOMAIN m = DOMAIN g \cup DOMAIN o
    /\ \A k \in DOMAIN o : m[k] = o[k]
    /\ \A k \in DOMAIN g \ DOMAIN o : m[k] = g[k]

\* m is vs with the key name set to value and every other key as it was
IsSet(m, vs, name, value) ==
    /\ DOMAIN m = DOMAIN vs \cup {name}
    /\ m[name] = value
    /\ \A k \in DOMAIN vs \ {name} : m[k] = vs[k]

\* the worker is about to dispatch an enabled VariableSet action
AtVariableSet ==
    /\ running /\ pc = "dispatch"
    /\ heap[it_macro].actions[idx].action_type = "VARIABLE_SET"
    /\ heap[it_macro].actions[idx].enabled

\* C28: an accepted execute_macro(id, overrides) starts the run with the
\* global variables overridden by the overrides (every key of either, the
\* override's value on a key of both, no other key); the dispatch of a
\* VariableSet with a non-empty name sets that key to its value and leaves
\* the other keys as they are; no other step of the worker changes the
\* variables.
C28_VariableMerge ==
    /\ \A id \in OKeys(macros), o \in Overrides :
           /\ ~running =>
                  ~ENABLED (/\ ExecuteMacro(id, o) /\ running'
                            /\ ~IsMerge(variables', global_variables, o))
           /\ (is_initialized /\ Stored(id).enabled /\ ~running
                   /\ RunsDone < MaxRuns)
                  => ENABLED (ExecuteMacro(id, o) /\ running')
    /\ AtVariableSet =>
           LET a == heap[it_macro].actions[idx]
               name == Get(a.parameters, "name", "")
               value == Get(a.parameters, "value", "")
           IN  /\ ENABLED Dispatch
               /\ ~ENABLED (/\ Dispatch
                            /\ IF name # ""
                               THEN ~IsSet(variables', variables, name, value)
                               ELSE variables' # variables)
    /\ (running /\ ~AtVariableSet) =>
           ~ENABLED (Worker /\ variables' # variables)

\* a run started with an override for a key the global variables hold too
C28_Witness ==
    /\ running /\ pc = "run"
    /\ global_variables = [x |-> 5, z |-> 6]
    /\ variables = [x |-> 7, z |-> 6]

\* C29: no step changes the plugin's global variables, whatever the runs
\* write, and every run starts with the global variables overridden by the
\* overrides of its call and nothing else: a value written by a VariableSet
\* of an earlier run is not there.
C29_VariablesScoped ==
    [][/\ global_variables' = global_variables
       /\ (~running /\ running') =>
              \E o \in Overrides : IsMerge(variables', global_variables, o)
      ]_vars

\* a second run started without overrides after a run that has completed,
\* and so has set x
C29_Witness ==
    /\ running /\ pc = "run"
    /\ execution_stats.successful_executions = 1
    /\ variables = global_variables
    /\ global_variables = [x |-> 5, z |-> 6]

\* the worker is at an enabled Condition or HotkeyTrigger action
AtReserved ==
    /\ running /\ it_macro # None
    /\ idx \in DOMAIN heap[it_macro].actions
    /\ heap[it_macro].actions[idx].action_type \in ReservedTypes
    /\ heap[it_macro].actions[idx].enabled

\* C30: the dispatch of an enabled Condition or HotkeyTrigger action adds
\* the dispatch to the trace and nothing else (no injector call, no error),
\* leaves the variables and the loop stack as they are, and is followed by
\* the action_executed and progress events of its index, after which the
\* worker goes on with the next action.
C30_ReservedNoOp ==
    [][AtReserved =>
          /\ (pc = "dispatch" /\ pc' # "dispatch") =>
                 /\ trace' = Append(trace, <<"dispatch", idx,
                                             heap[it_macro].actions[idx].id>>)
                 /\ variables' = variables
                 /\ loop_stack' = loop_stack
                 /\ pc' = "emit" /\ idx' = idx
          /\ (pc = "emit" /\ pc' # "emit") =>
                 /\ trace' = trace \o
                       << <<"action_executed", heap[macro].id,
                            ActionTypeValue[heap[it_macro].actions[idx].action_type]>>,
                          <<"progress", heap[macro].id, idx,
                            Len(heap[macro].actions)>> >>
                 /\ variables' = variables
                 /\ loop_stack' = loop_stack
                 /\ pc' = "action" /\ idx' = idx + 1
      ]_vars

\* a completed run that has gone through both reserved kinds and dispatched
\* the key press after them
C30_Witness ==
    /\ RunComplete /\ ~stop_seen
    /\ \E n \in DOMAIN trace : trace[n] = <<"action_executed", 1, "condition">>
    /\ \E n \in DOMAIN trace : trace[n] = <<"action_executed", 1, "hotkey_trigger">>
    /\ \E n \in DOMAIN trace : trace[n] = <<"dispatch", 3, 11>>

\* C31: every create_macro call returns an id that was not a key of the
\* store before the call, the store grows by exactly one entry, every macro
\* stored before is unchanged, and the new macro has an empty action list, no
\* hotkey, enabled true and repeat_count 1.
C31_CreateFresh ==
    [][\A now \in Times :
           CreateMacro("New Macro", "General", now) =>
               /\ ~OHas(macros, now)
               /\ Len(macros') = Len(macros) + 1
               /\ \A id \in OKeys(macros) :
                      OHas(macros', id) /\ heap'[OGet(macros', id)] = Stored(id)
               /\ OHas(macros', now)
               /\ LET m == heap'[OGet(macros', now)]
                  IN  /\ m.id = now
                      /\ m.actions = <<>>
                      /\ m.hotkey = NoHotkey
                      /\ m.enabled
                      /\ m.repeat_count = 1]_vars

\* the press of a key at entry n of the trace
IsPress(n) == trace[n][1] = "call" /\ trace[n][2] = "press"

\* C32: every press a KeyHold issues is followed by the release of the same
\* key before the next action is dispatched, before a repeat delay begins
\* and before the run emits finished, whatever stop, pause and resume do
\* meanwhile.
C32_NoKeyLeftHeld ==
    (running /\ macro # None) =>
        \A n \in DOMAIN trace :
            (IsPress(n) /\ NextMark(n) <= Len(trace)) =>
                \E k \in (n + 1) .. (NextMark(n) - 1) :
                    trace[k] = <<"call", "release", trace[n][3]>>

\* C33: a MouseMove with a duration, once it has returned without having
\* been cancelled, has made max(10, 100 * duration) steps and has left the
\* pointer at the resolved target: (x, y), or the position at the call plus
\* (x, y) when relative is set, where the same MouseMove with no duration
\* leaves it.
C33_SmoothMoveReachesTarget ==
    (/\ mouse_move.pc = "idle" /\ mouse_move.smooth /\ ~mouse_move.broke) =>
        /\ mouse_move.i = mouse_move.steps
        /\ mouse_move.steps >= MinSteps
        /\ pointer = <<mouse_move.x, mouse_move.y>>

\* the positions in the store of the enabled macros that claim hotkey h
Claimants(h) ==
    {n \in DOMAIN macros :
        heap[macros[n][2]].enabled /\ heap[macros[n][2]].hotkey = h}

\* C34: after the load of a persisted collection into the empty engine (and
\* before any store operation), the keys of the hotkey map are exactly the
\* non-empty hotkeys that at least one enabled macro of the store claims,
\* each key maps to one id, that of the claimant loaded last; and when no
\* entry of the collection is malformed, the store holds the macros of the
\* collection, in its order, with their hotkeys and enabled flags.
C34_HotkeyMapAfterLoad ==
    (is_initialized /\ store_ops = 0) =>
        LET saved == plugin_config.saved_macros
        IN  /\ DOMAIN hotkey_bindings =
                   {h \in Hotkeys \cup UnparsableHotkeys : Claimants(h) # {}}
            /\ \A h \in DOMAIN hotkey_bindings :
                   \E n \in Claimants(h) :
                       /\ hotkey_bindings[h] = macros[n][1]
                       /\ \A o \in Claimants(h) : o <= n
            /\ Offending(saved) = {} =>
                   /\ Len(macros) = Len(saved)
                   /\ \A n \in DOMAIN saved :
                          /\ macros[n][1] = saved[n][1]
                          /\ heap[macros[n][2]].hotkey = saved[n][2].hotkey
                          /\ heap[macros[n][2]].enabled = saved[n][2].enabled

\* two enabled macros that claim the same hotkey have been loaded: the map
\* holds the second
C34_Witness ==
    /\ is_initialized /\ store_ops = 0
    /\ Cardinality(Claimants("h1")) = 2
    /\ hotkey_bindings = [h \in {"h1"} |-> 2]

\* C35: delete_macro(id) on a stored id removes that macro and the hotkey
\* bindings whose value is id, and nothing else: every other macro of the
\* store is as it was, and every binding to another macro is kept, the one
\* under the deleted macro's own hotkey string included.
C35_DeleteFrame ==
    [][\A id \in CallIds :
           DeleteMacro(id) =>
               /\ ~OHas(macros', id)
               /\ \A k \in OKeys(macros) \ {id} :
                      OHas(macros', k) /\ heap'[OGet(macros', k)] = Stored(k)
               /\ \A h \in DOMAIN hotkey_bindings :
                      hotkey_bindings[h] # id =>
                          /\ h \in DOMAIN hotkey_bindings'
                          /\ hotkey_bindings'[h] = hotkey_bindings[h]
               /\ \A h \in DOMAIN hotkey_bindings' :
                      /\ h \in DOMAIN hotkey_bindings
                      /\ hotkey_bindings'[h] # id]_vars

\* the events of the current run are one started, first, and at most one
\* finished, last, which a run that is complete has emitted
OneStartOneFinish ==
    (running /\ macro # None /\ trace # <<>>) =>
        /\ trace[1][1] = "started"
        /\ \A n \in DOMAIN trace :
               /\ trace[n][1] = "started" => n = 1
               /\ trace[n][1] = "finished" => n = Len(trace)
        /\ RunComplete => trace[Len(trace)][1] = "finished"

\* an execute call has just been accepted
Accepted == running /\ pc = "run"

\* the run has emitted execution_finished
Finished == running /\ pc = "exit" /\ trace[Len(trace)][1] = "finished"

\* C36 as stated: a run emits one started before every other event and one
\* finished after all of them, and with the worker scheduled fairly every
\* accepted run emits finished, provided every pause is followed by a resume
\* or a stop.
C36_Original ==
    /\ [](Paused => <>~Paused) => (Accepted ~> Finished)
    /\ []OneStartOneFinish

\* C36: a run emits one started before every other event and one finished
\* after all of them, and with the worker scheduled fairly every accepted
\* run emits finished, provided that from some moment on the run is not
\* paused (the pauses come to an end, by a resume, a stop or no further
\* pause).
C36_OneCompletion ==
    /\ <>[]~Paused => (Accepted ~> Finished)
    /\ []OneStartOneFinish

\* a run that waited in the pause loop and was resumed has emitted finished
C36_Witness ==
    /\ Finished /\ blocked /\ ~stop_seen /\ ~is_paused
    /\ trace[1][1] = "started"
    /\ Len(SelectSeq(trace, IsDispatch)) = 6

\* a run is in flight: the worker has been started and has not yet emitted
\* execution_finished
InFlight == running /\ macro # None /\ pc # "exit"

\* C37: while a run is in flight, currently_executing is the id of the macro
\* that is run, whenever the earlier finished events are delivered; and when
\* no run is in flight and every finished event has been handled, it is
\* None.
C37_MarkerTracksRun ==
    /\ InFlight => currently_executing = heap[macro].id
    /\ (~running /\ sigq = <<>>) => currently_executing = None

\* C38: the step that starts a run leaves should_stop and is_paused false,
\* whatever stop and pause calls came before it (during an earlier run, or
\* with no run in flight, when stop_macro does nothing); during a run
\* should_stop is raised by a stop_macro call of that run only and the worker
\* begins to wait in the pause loop only when is_paused is set; and a run
\* without a stop_macro call after its start reports success.
C38_NoStaleRequests ==
    /\ [](~running => ~ENABLED StopMacro)
    /\ [][/\ (~running /\ running') =>
                 (~should_stop' /\ ~is_paused' /\ ~stop_seen' /\ ~blocked')
          /\ (running /\ should_stop' /\ ~should_stop) => (~stop_seen /\ stop_seen')
          /\ (blocked' /\ ~blocked) => (running /\ is_paused)
          /\ (Appends("finished") /\ ~stop_seen) => trace'[Len(trace')][3] = TRUE
         ]_vars

\* after a run that was stopped, and a pause with no run in flight, a second
\* run has run to its end without waiting and reports success
C38_Witness ==
    /\ execution_stats.failed_executions = 1
    /\ RunComplete /\ ~stop_seen /\ ~blocked
    /\ trace[Len(trace)] = <<"finished", heap[macro].id, TRUE>>

\* C39: execute_macro(id) for an id that is not in the store emits the error
\* notification and is available whatever the engine is doing, and the call
\* changes nothing: no run is started, and the executor's macro, variables
\* and flags, currently_executing, the store, the hotkey map and the
\* statistics are as before.
C39_UnknownIdNoOp ==
    is_initialized =>
        \A id \in CallIds :
            ~OHas(macros, id) =>
                /\ ExecuteNotice(id) = <<"error_occurred", "not found", id>>
                /\ ENABLED ExecuteMacro(id, EmptyDict)
                /\ ~ENABLED (ExecuteMacro(id, EmptyDict) /\ vars' # vars)

\* a run of a macro is in flight, the macro has been deleted meanwhile, and
\* an execute call for its id is answered "not found"
C39_Witness ==
    /\ is_initialized /\ running /\ pc = "sleep"
    /\ currently_executing = 1
    /\ ~OHas(macros, 1)
    /\ ENABLED (ExecuteMacro(1, EmptyDict) /\ UNCHANGED vars)

\* the worker is about to hand an enabled LoopEnd to _execute_action while
\* the loop stack is empty
StrayLoopEnd ==
    /\ pc = "dispatch"
    /\ heap[it_macro].actions[idx].action_type = "LOOP_END"
    /\ heap[it_macro].actions[idx].enabled
    /\ loop_stack = <<>>

\* the worker has executed a LoopEnd on an empty loop stack and is about to
\* emit its signals
StrayLoopEndDone ==
    /\ pc = "emit"
    /\ heap[it_macro].actions[idx].action_type = "LOOP_END"
    /\ loop_stack = <<>>

\* C40: dispatching a LoopEnd while the loop stack is empty leaves the loop
\* stack, the variables, the flags and the executor's macro as they are,
\* injects nothing and logs no error (the trace gains the dispatch entry
\* only); the worker goes on to emit the action's signals and then to the
\* action after it. The loop stack never holds an entry whose counter is
\* outside 0 .. iterations - 1, so no LoopEnd pops from an empty stack.
C40_UnmatchedLoopEndHarmless ==
    /\ [](\A k \in DOMAIN loop_stack :
              /\ loop_stack[k].current >= 0
              /\ loop_stack[k].current < loop_stack[k].iterations)
    /\ [][/\ (StrayLoopEnd /\ pc' # pc) =>
                /\ loop_stack' = <<>>
                /\ UNCHANGED <<variables, macro, should_stop, is_paused,
                               idx, repeat, it_macro, running, sigq, blocked>>
                /\ trace' = Append(trace,
                       <<"dispatch", idx, heap[it_macro].actions[idx].id>>)
                /\ pc' = "emit"
          /\ (StrayLoopEndDone /\ pc' # pc) =>
                /\ pc' = "action"
                /\ idx' = idx + 1
                /\ UNCHANGED <<loop_stack, variables, macro, repeat>>]_vars

\* a LoopEnd that followed the close of its loop was executed on an empty
\* stack, and the action after it has been dispatched in the same run
C40_Witness ==
    /\ running /\ pc = "emit" /\ idx = 6
    /\ heap[it_macro].name = "extra"
    /\ loop_stack = <<>>
    /\ \E n \in DOMAIN trace : trace[n] = <<"dispatch", 5, LoopEnd.id>>
    /\ \E n \in DOMAIN trace : trace[n] = <<"dispatch", 6, KeyB.id>>

====
